---- MODULE Spec2Model ----
(***************************************************************************)
(* A model of the QGISTool plugin: the click layer edited by the map       *)
(* tools of maptools.py (AddPointTool, EditPointTool), the add/delete mode *)
(* toggles of viewer.py and maptools.py, and the photo viewer's row        *)
(* navigation of viewer_logic.py.                                          *)
(*                                                                         *)
(* Values.  An attribute value or an optional Python value is a sequence:  *)
(* <<>> is None / NULL, <<v>> is the value v.  A point is <<x, y>>.        *)
(* Layer coordinates are integers in units of COORD_TOL (1e-7 degree), so  *)
(* "abs(a - b) <= tol" is "the integers differ by at most COORD_TOL".      *)
(* Map coordinates are integers; the canvas shows MppDen map units per     *)
(* MppNum ... i.e. mapUnitsPerPixel = MppNum / MppDen.                     *)
(***************************************************************************)
EXTENDS Integers, Sequences, FiniteSets, TLC

VARIABLES
    fields,               \* names of the click layer's fields
    feats,                \* committed features of the click layer: fid -> [geom, attrs]
    nextFid,              \* next feature id the memory provider hands out
    press_pt_map,         \* EditPointTool._press_pt_map
    drag_fid,             \* EditPointTool._drag_fid (NoFid is None)
    dragging,             \* EditPointTool._dragging
    drag_start_layer_pt,  \* EditPointTool._drag_start_layer_pt
    drag_start_fid,       \* EditPointTool._drag_start_fid
    preview_recent,       \* EditPointTool.last_preview_t is less than 50 ms ago
    impl,                 \* which code toggles the modes: "viewer", "controller", "helper"
    add_mode,             \* owner._add_mode
    del_mode,             \* owner._del_mode
    click_tool,           \* owner._click_tool is a tool (not None)
    delete_tool,          \* owner._delete_tool is a tool (not None)
    prev_map_tool,        \* owner._prev_map_tool
    canvas_tool,          \* canvas.mapTool()
    add_btn,              \* the add button: [text, checked]
    del_btn,              \* the delete button: [text, checked]
    tool_before_on,       \* canvas.mapTool() when a mode was last switched ON
    images,               \* owner.images: the loaded rows
    current_index,        \* owner.current_index, counted from 0
    idx_by_kp,            \* owner._idx_by_kp
    idx_by_pic,           \* owner._idx_by_pic
    kp_order,             \* owner._kp_order
    last_disp_front,      \* owner._last_disp_front: the picture shown on the left
    last_disp_back,       \* owner._last_disp_back: the picture shown on the right
    points,               \* owner.layer: the KP markers of the photo layer, [kp, side, is_sel]
    disk,                 \* the files on disk: path -> [csv, meta], <<>> a file that is not there
    exported,             \* per path, the meta of the most recent export_clicks_csv to it
    io_ret,               \* what the last call of io.py returned or raised
    dlg,                  \* the AttrDialog: its rows' widgets, its result, its last warning
    plugin,               \* QGISToolPlugin: [action, viewer] not None, and the state of the dock
    editing,              \* the layer's edit session and the "with" blocks open on it
    selecting,            \* suspend_selection_signal, the layer's selection, the calls in progress
    last                  \* the last event handled: [ev, n]

layerVars == <<fields, feats, nextFid>>

dragVars == <<press_pt_map, drag_fid, dragging, drag_start_layer_pt, drag_start_fid>>

toolVars == <<fields, feats, nextFid, press_pt_map, drag_fid, dragging,
              drag_start_layer_pt, drag_start_fid, preview_recent>>

modeVars == <<impl, add_mode, del_mode, click_tool, delete_tool, prev_map_tool,
              canvas_tool, add_btn, del_btn, tool_before_on>>

viewVars == <<images, current_index, idx_by_kp, idx_by_pic, kp_order,
              last_disp_front, last_disp_back, points>>

ioVars == <<disk, exported, io_ret>>

dlgVars == <<dlg>>

plugVars == <<plugin>>
sesVars == <<editing>>
selVars == <<selecting>>

vars == <<fields, feats, nextFid, press_pt_map, drag_fid, dragging,
          drag_start_layer_pt, drag_start_fid, preview_recent,
          impl, add_mode, del_mode, click_tool, delete_tool, prev_map_tool,
          canvas_tool, add_btn, del_btn, tool_before_on,
          images, current_index, idx_by_kp, idx_by_pic, kp_order,
          last_disp_front, last_disp_back, points, disk, exported, io_ret, dlg, plugin, editing, selecting, last>>

(***************************************************************************)
(* Bounds of the model.                                                    *)
(***************************************************************************)
MaxFid == 3       \* features ever created in one run
MaxSets == 2      \* attribute sets one prompt returns at most
MaxEdits == 2     \* edits made to the layer in one run of the edit-session model
MaxDepth == 2     \* "with" blocks open on the layer at once
MaxCalls == 4     \* calls of show_image and _select_features in progress at once

(***************************************************************************)
(* Program constants.                                                      *)
(***************************************************************************)
COORD_TOL == 1    \* 1e-7 degree, the unit of layer coordinates
TOL_PIXELS == 10
DRAG_PIXELS == 3
NoFid == 0        \* _drag_fid = None

NULL == <<>>
NoPt == <<>>
Val(v) == <<v>>
Truthy(o) == o # NULL /\ o # Val("")

Abs(n) == IF n < 0 THEN -n ELSE n

(***************************************************************************)
(* The canvas: map units per pixel is MppNum / MppDen, and the map CRS is  *)
(* the layer CRS shifted by ShiftX along x (QgsCoordinateTransform).       *)
(***************************************************************************)
MppNum == 1
MppDen == 2
ShiftX == 3

MapToLayer(p) == <<p[1] + ShiftX, p[2]>>
LayerToMap(p) == <<p[1] - ShiftX, p[2]>>

\* The map points the mouse events of the model happen at.
EventPts == { <<0, 0>>, <<1, 0>>, <<0, 5>> }

Buttons == {"left", "right", "middle"}

SqDist(p, q) == (p[1] - q[1]) * (p[1] - q[1]) + (p[2] - q[2]) * (p[2] - q[2])

\* d > mapUnitsPerPixel * px, for d the root of sq
FartherThanPixels(sq, px) == sq * MppDen * MppDen > (px * MppNum) * (px * MppNum)

(***************************************************************************)
(* fields.py                                                               *)
(***************************************************************************)
\* class FN defines no UNKNOWN: reading FN.UNKNOWN (io.py 190, maptools.py 309)
\* raises AttributeError
FN_has_UNKNOWN == FALSE

SchemaFields == {"category", "lat", "lon", "jpg", "traffic sign", "pole", "fire hydrant"}
OTHER_CANDIDATES == {"traffic sign", "pole", "fire hydrant"}

GROUP_KEEP(category_norm) ==
    IF category_norm \in OTHER_CANDIDATES THEN {category_norm} ELSE {}

\* normalize_category over the category texts of the model
normalize_category(raw) ==
    CASE raw \in {"Pole", "pole", " pole "} -> "pole"
      [] raw \in {"sign", "traffic_sign", "Traffic Sign", "traffic sign"} -> "traffic sign"
      [] raw \in {"hydrant", "fire hydrant", "fire_hydrant"} -> "fire hydrant"
      [] OTHER -> raw

\* A layer's fields after addAttributes(names) + updateFields()
AddFields(fs, names) == fs \cup names

\* Existing features read NULL in a field added after they were created.
WidenAttrs(attrs, fs) ==
    [k \in fs |-> IF k \in DOMAIN attrs THEN attrs[k] ELSE NULL]

WidenFeats(fm, fs) ==
    [fid \in DOMAIN fm |-> [geom |-> fm[fid].geom, attrs |-> WidenAttrs(fm[fid].attrs, fs)]]

\* apply_schema: the layer's fields afterwards
apply_schema(fs) == AddFields(fs, SchemaFields \ fs)

\* clear_unrelated_category_attrs on a feature's attributes
clear_unrelated_category_attrs(fs, attrs, category_norm) ==
    [k \in DOMAIN attrs |->
        IF k \in OTHER_CANDIDATES /\ k \in fs /\ k \notin GROUP_KEEP(category_norm)
        THEN NULL ELSE attrs[k]]

(***************************************************************************)
(* The click layer the tools are given.                                    *)
(***************************************************************************)
\* layers.ensure_click_layer creates lat, lon, jpg, category, subcat, then apply_schema
PluginLayerFields == apply_schema({"lat", "lon", "jpg", "category", "subcat"})
\* a PhotoClicks layer that exists already, as viewer.py's _ensure_click_layer
\* creates it: lat, lon, jpg
ForeignLayerFields == {"lat", "lon", "jpg"}

Attr(f, k) == IF k \in DOMAIN f.attrs THEN f.attrs[k] ELSE NULL

Fids(fm) == DOMAIN fm

\* abs(p.x() - x) <= tol and abs(p.y() - y) <= tol
WithinTol(p, q) == Abs(p[1] - q[1]) <= COORD_TOL /\ Abs(p[2] - q[2]) <= COORD_TOL

(***************************************************************************)
(* AddPointTool (maptools.py)                                              *)
(***************************************************************************)
\* The attribute sets owner._prompt_attributes() can return, as dicts.
AttrSets ==
    { ("category" :> "pole"),
      ("category" :> "pole") @@ ("subcat" :> "own") }

RECURSIVE SeqsUpTo(_, _)
SeqsUpTo(S, n) ==
    IF n = 0 THEN { <<>> }
    ELSE LET shorter == SeqsUpTo(S, n - 1)
         IN shorter \cup { Append(q, e) : q \in { r \in shorter : Len(r) = n - 1 }, e \in S }

\* What the prompt returns: <<>> when cancelled or empty, else a list of dicts.
PromptResults == SeqsUpTo(AttrSets, MaxSets)

\* extra_attrs.get(k), truthy
GetTruthy(ea, k) == k \in DOMAIN ea /\ ea[k] # ""

\* Path(s).name over the picture names of the model
PathName(s) ==
    CASE s = "dir/b.jpg" -> "b.jpg"
      [] OTHER -> s

\* AddPointTool._has_same_coord_feature
HasSameCoordFeature(fm, pt_layer) ==
    \E fid \in Fids(fm) : WithinTol(fm[fid].geom, pt_layer)

\* a rule that looks at the number of sets only
WillBeCombinedOnlyLists(n, same_coord_exists) == n >= 2

\* len(extra_attrs_list) >= 2 or same_coord_exists
WillBeCombined(n, same_coord_exists) == n >= 2 \/ same_coord_exists

\* the subcat injection of lines 100-101
InjectSubcat(ea, will_be_combined) ==
    IF will_be_combined /\ ~(GetTruthy(ea, "subcat") \/ GetTruthy(ea, "subCategory"))
    THEN [k \in DOMAIN ea \cup {"subcat"} |-> IF k = "subcat" THEN "combined" ELSE ea[k]]
    ELSE ea

\* jpg_val: the name of the current row's front picture, "" without rows
JpgVal ==
    IF Len(images) > 0 /\ current_index \in 0..(Len(images) - 1)
    THEN PathName(images[current_index + 1].front)
    ELSE ""

\* The feature built for one attribute set (lines 114-137)
NewFeature(fs, pt_layer, ea, jpg_val) ==
    LET base == [k \in fs |->
                    IF k \in DOMAIN ea THEN Val(ea[k])
                    ELSE IF k = "lat" THEN Val(pt_layer[2])
                    ELSE IF k = "lon" THEN Val(pt_layer[1])
                    ELSE IF k = "jpg" THEN Val(jpg_val)
                    ELSE NULL]
        raw_category == IF GetTruthy(ea, "category") THEN ea["category"] ELSE ""
    IN [geom |-> pt_layer,
        attrs |-> clear_unrelated_category_attrs(fs, base, normalize_category(raw_category))]

(***************************************************************************)
(* An edit session of the layer inside one handler: fs its fields, prov    *)
(* the provider's features, buf the layer's view (provider plus edit       *)
(* buffer), editable whether a session is open.                            *)
(***************************************************************************)
Session(fs, fm) == [fs |-> fs, prov |-> fm, buf |-> fm, editable |-> FALSE,
                    nf |-> nextFid, failed |-> FALSE]

startEditing(st) == IF st.editable THEN st ELSE [st EXCEPT !.editable = TRUE, !.buf = st.prov]
commitChanges(st) == IF st.editable THEN [st EXCEPT !.prov = st.buf, !.editable = FALSE] ELSE st
rollBack(st) == IF st.editable THEN [st EXCEPT !.buf = st.prov, !.editable = FALSE] ELSE st

\* EditContext.__enter__
EditContextEnter(st) == IF ~st.editable THEN startEditing(st) ELSE st
\* EditContext.__exit__ without an exception
EditContextExit(st) == commitChanges(st)
\* EditContext.__exit__ with an exception, which it lets propagate
EditContextExitExc(st) == rollBack(st)
\* fields.edit: startEditing, the body, commitChanges; rollBack and raise on an exception
edit_enter(st) == startEditing(st)
edit_exit(st) == commitChanges(st)
edit_exit_exc(st) == rollBack(st)

\* dataProvider().addAttributes(need); updateFields(), inside "with EditContext"
AddNeededFields(st, need) ==
    LET s1 == EditContextEnter(st)
        fs2 == AddFields(s1.fs, need)
        s2 == [s1 EXCEPT !.fs = fs2, !.prov = WidenFeats(s1.prov, fs2),
                         !.buf = WidenFeats(s1.buf, fs2)]
    IN EditContextExit(s2)

\* layer.addFeatures([f]): False without an edit session
addFeatures(st, f) ==
    IF ~st.editable THEN [st EXCEPT !.failed = TRUE]
    ELSE [st EXCEPT !.buf = (st.nf :> f) @@ st.buf, !.nf = st.nf + 1]

\* one pass of the loop of lines 98-140
AddOne(st, ea0, pt_layer, will_be_combined, jpg_val) ==
    LET ea == InjectSubcat(ea0, will_be_combined)
        need == DOMAIN ea \ st.fs
        s1 == IF need # {} THEN AddNeededFields(st, need) ELSE st
    IN addFeatures(s1, NewFeature(s1.fs, pt_layer, ea, jpg_val))

RECURSIVE AddLoop(_, _, _, _, _, _)
AddLoop(st, list, i, pt_layer, will_be_combined, jpg_val) ==
    IF i > Len(list) \/ st.failed THEN st
    ELSE AddLoop(AddOne(st, list[i], pt_layer, will_be_combined, jpg_val),
                 list, i + 1, pt_layer, will_be_combined, jpg_val)

\* lines 94-150: startEditing, the loop, commitChanges, or rollBack on an exception
AddAll(fs, fm, list, pt_layer, will_be_combined, jpg_val) ==
    LET s0 == startEditing(Session(fs, fm))
        s1 == AddLoop(s0, list, 1, pt_layer, will_be_combined, jpg_val)
    IN IF s1.failed THEN rollBack(s1) ELSE commitChanges(s1)

Event(name) == [ev |-> name, n |-> 0]

\* AddPointTool.canvasReleaseEvent at map point pt, the prompt returning list
AddRelease(pt, list) ==
    LET fs1 == apply_schema(fields)
        fm1 == WidenFeats(feats, fs1)
        pt_layer == MapToLayer(pt)
        same_coord_exists == HasSameCoordFeature(fm1, pt_layer)
        res == AddAll(fs1, fm1, list, pt_layer,
                      WillBeCombined(Len(list), same_coord_exists), JpgVal)
    IN /\ nextFid + Len(list) - 1 <= MaxFid
       /\ IF list = <<>>
          THEN /\ fields' = fs1
               /\ feats' = fm1
               /\ nextFid' = nextFid
               /\ last' = [ev |-> "add", n |-> 0]
          ELSE /\ fields' = res.fs
               /\ feats' = res.prov
               /\ nextFid' = res.nf
               /\ last' = [ev |-> IF res.failed THEN "add_failed" ELSE "add", n |-> Len(list)]
       /\ UNCHANGED <<dragVars, preview_recent, viewVars, ioVars, dlgVars, plugVars, sesVars, selVars, modeVars>>

AddClick == \E pt \in EventPts, list \in PromptResults : AddRelease(pt, list)

\* attribute sets of which one names an attribute the layer has no field for
\* (the key of "drain inlet" of USER_ATTRS), and the lists a prompt makes of them
KeySets ==
    { ("category" :> "pole"),
      ("category" :> "pole") @@ ("drain_inlet" :> "drain inlet=1") }

KeyLists == SeqsUpTo(KeySets, MaxSets)

AddClickKeys == \E pt \in EventPts, list \in KeyLists : AddRelease(pt, list)

(***************************************************************************)
(* EditPointTool (maptools.py)                                             *)
(***************************************************************************)
\* distance, squared, between a map point and a feature's geometry in the map CRS
MapSqDist(fm, fid, pt_map) == SqDist(pt_map, LayerToMap(fm[fid].geom))

\* the nearest feature whatever its distance
NearestFidAnyDistance(fm, pt_map) ==
    IF Fids(fm) = {} THEN NoFid
    ELSE CHOOSE a \in Fids(fm) :
            \A b \in Fids(fm) :
                \/ MapSqDist(fm, a, pt_map) < MapSqDist(fm, b, pt_map)
                \/ MapSqDist(fm, a, pt_map) = MapSqDist(fm, b, pt_map) /\ a <= b

\* EditPointTool._nearest_feature: the first nearest feature in getFeatures order
\* (ascending fid), NoFid when there is none within TOL_PIXELS
NearestFid(fm, pt_map) ==
    IF Fids(fm) = {} THEN NoFid
    ELSE LET best == CHOOSE a \in Fids(fm) :
                        \A b \in Fids(fm) :
                            \/ MapSqDist(fm, a, pt_map) < MapSqDist(fm, b, pt_map)
                            \/ MapSqDist(fm, a, pt_map) = MapSqDist(fm, b, pt_map) /\ a <= b
         IN IF FartherThanPixels(MapSqDist(fm, best, pt_map), TOL_PIXELS) THEN NoFid ELSE best

\* EditPointTool._same_coord_fids
SameCoordFids(fm, fid, pt_layer) ==
    { o \in Fids(fm) : o # fid /\ WithinTol(fm[o].geom, pt_layer) }

\* layer.changeAttributeValue(fid, idx, v) for the fids of a set, inside EditContext
ChangeAttr(fm, fids, k, v) ==
    [fid \in DOMAIN fm |->
        IF fid \in fids /\ k \in DOMAIN fm[fid].attrs
        THEN [fm[fid] EXCEPT !.attrs[k] = v]
        ELSE fm[fid]]

\* changeGeometry alone, lat and lon left as they were
MoveGeometryOnly(fm, fid, pt_layer) ==
    [f \in DOMAIN fm |-> IF f = fid THEN [fm[f] EXCEPT !.geom = pt_layer] ELSE fm[f]]

\* layer.changeGeometry(fid, g) and the lat/lon update of canvasMoveEvent
MoveFeature(fm, fid, pt_layer) ==
    [f \in DOMAIN fm |->
        IF f = fid
        THEN [geom |-> pt_layer,
              attrs |-> [k \in DOMAIN fm[f].attrs |->
                            IF k = "lat" THEN Val(pt_layer[2])
                            ELSE IF k = "lon" THEN Val(pt_layer[1])
                            ELSE fm[f].attrs[k]]]
        ELSE fm[f]]

\* dataProvider().deleteFeatures([fid])
DeleteFeature(fm, fid) == [f \in DOMAIN fm \ {fid} |-> fm[f]]

ClearDrag ==
    /\ press_pt_map' = NoPt
    /\ drag_fid' = NoFid
    /\ dragging' = FALSE
    /\ drag_start_layer_pt' = NoPt
    /\ drag_start_fid' = NoFid

\* A gesture that follows a button release previews more than 50 ms after the
\* last preview of the gesture before it.
ThrottleExpires == preview_recent' = FALSE

\* EditPointTool.canvasPressEvent
EditPress(button, pt) ==
    /\ IF button = "right"
       THEN ClearDrag
       ELSE LET fid == NearestFid(feats, pt)
            IN /\ press_pt_map' = pt
               /\ dragging' = FALSE
               /\ drag_fid' = fid
               /\ drag_start_fid' = fid
               /\ drag_start_layer_pt' = IF fid # NoFid THEN feats[fid].geom ELSE NoPt
    /\ last' = Event("other")
    /\ UNCHANGED <<layerVars, preview_recent, viewVars, ioVars, dlgVars, plugVars, sesVars, selVars, modeVars>>

\* the drag threshold of canvasMoveEvent
BeyondDragThreshold(pt, press) == FartherThanPixels(SqDist(pt, press), DRAG_PIXELS)

\* EditPointTool.canvasMoveEvent at map point pt
EditMove(pt) ==
    /\ last' = Event("other")
    /\ UNCHANGED <<fields, nextFid, press_pt_map, drag_fid, drag_start_layer_pt,
                   drag_start_fid, viewVars, ioVars, dlgVars, plugVars, sesVars, selVars, modeVars>>
    /\ IF drag_fid = NoFid \/ press_pt_map = NoPt
       THEN UNCHANGED <<feats, dragging, preview_recent>>
       ELSE IF ~dragging /\ ~BeyondDragThreshold(pt, press_pt_map)
       THEN UNCHANGED <<feats, dragging, preview_recent>>
       ELSE /\ dragging' = TRUE
            /\ IF preview_recent
               THEN UNCHANGED <<feats, preview_recent>>
               ELSE /\ preview_recent' = TRUE
                    /\ feats' = MoveFeature(feats, drag_fid, MapToLayer(pt))

\* 50 ms pass without a preview
PreviewAges ==
    /\ preview_recent
    /\ preview_recent' = FALSE
    /\ last' = Event("other")
    /\ UNCHANGED <<layerVars, dragVars, viewVars, ioVars, dlgVars, plugVars, sesVars, selVars, modeVars>>

\* EditPointTool._set_attrs_only: the chosen keys overwrite the feature's attributes
\* and are committed (lines 293-298); the write-back of the attributes cleared for
\* the category (307-312) raises at FN.UNKNOWN before it changes a value
SetAttrsOnly(fm, fid, extra) ==
    [f \in DOMAIN fm |->
        IF f = fid
        THEN LET chosen == [k \in DOMAIN fm[f].attrs |->
                              IF k \in DOMAIN extra THEN Val(extra[k])
                              ELSE fm[f].attrs[k]]
                 raw_category == IF GetTruthy(extra, "category") THEN extra["category"] ELSE ""
             IN [fm[f] EXCEPT !.attrs =
                    IF FN_has_UNKNOWN
                    THEN clear_unrelated_category_attrs(DOMAIN chosen, chosen,
                                                        normalize_category(raw_category))
                    ELSE chosen]
        ELSE fm[f]]

\* steps 1 and 2 of the drag branch: clear the moved point's subcat, then mark it
\* and the points at the drop coordinate 'combined'
DropMark(fm, fid, pt_layer) ==
    LET cleared == ChangeAttr(fm, {fid}, "subcat", NULL)
        other_fids_at_drop == SameCoordFids(cleared, fid, pt_layer)
    IN IF other_fids_at_drop # {}
       THEN ChangeAttr(cleared, {fid} \cup other_fids_at_drop, "subcat", Val("combined"))
       ELSE cleared

\* a step 3 that clears every point left at the start coordinate
StartUnmarkAll(fm, fid, start_pt) ==
    IF start_pt = NoPt THEN fm
    ELSE ChangeAttr(fm, { o \in Fids(fm) : o # fid /\ WithinTol(fm[o].geom, start_pt) },
                    "subcat", NULL)

\* step 3 of the drag branch: a single point left at the start coordinate is cleared
StartUnmark(fm, fid, start_pt) ==
    IF start_pt = NoPt THEN fm
    ELSE LET remain_fids == { o \in Fids(fm) : o # fid /\ WithinTol(fm[o].geom, start_pt) }
         IN IF Cardinality(remain_fids) = 1
            THEN ChangeAttr(fm, remain_fids, "subcat", NULL)
            ELSE fm

\* the drag branch of canvasReleaseEvent (lines 434-477)
DragEnd(fm, fid, pt_layer, start_pt) == StartUnmark(DropMark(fm, fid, pt_layer), fid, start_pt)

\* EditPointTool.canvasReleaseEvent, right button and no drag in progress
\* (lines 396-410); reply answers the confirmation of _delete_feature_with_confirm
EditReleaseDelete(pt, reply) ==
    LET fid == NearestFid(feats, pt)
    IN /\ ~dragging
       /\ feats' = IF fid # NoFid /\ reply = "yes" THEN DeleteFeature(feats, fid) ELSE feats
       /\ ClearDrag
       /\ last' = [ev |-> "delete", n |-> IF fid # NoFid /\ reply = "yes" THEN 1 ELSE 0]
       /\ ThrottleExpires
       /\ UNCHANGED <<fields, nextFid, viewVars, ioVars, dlgVars, plugVars, sesVars, selVars, modeVars>>

\* EditPointTool.canvasReleaseEvent, nothing grabbed at the press (lines 412-418)
EditReleaseNothing(button) ==
    /\ ~(~dragging /\ button = "right")
    /\ drag_fid = NoFid
    /\ press_pt_map' = NoPt
    /\ dragging' = FALSE
    /\ drag_start_layer_pt' = NoPt
    /\ drag_start_fid' = NoFid
    /\ last' = Event("other")
    /\ ThrottleExpires
    /\ UNCHANGED <<drag_fid, layerVars, viewVars, ioVars, dlgVars, plugVars, sesVars, selVars, modeVars>>

\* EditPointTool.canvasReleaseEvent, left click without a drag (lines 420-432);
\* prompt is <<>> or the one attribute set _prompt_single_attrs_for_edit returns
EditReleaseClick(prompt) ==
    LET fs1 == apply_schema(fields)
        fm1 == WidenFeats(feats, fs1)
    IN /\ drag_fid # NoFid
       /\ ~dragging
       /\ fields' = fs1
       /\ feats' = IF prompt = <<>> THEN fm1 ELSE SetAttrsOnly(fm1, drag_fid, prompt[1])
       /\ ClearDrag
       /\ last' = Event("click")
       /\ ThrottleExpires
       /\ UNCHANGED <<nextFid, viewVars, ioVars, dlgVars, plugVars, sesVars, selVars, modeVars>>

\* EditPointTool.canvasReleaseEvent while dragging, any button (lines 434-491)
EditReleaseDrag(pt) ==
    LET fs1 == apply_schema(fields)
        fm1 == WidenFeats(feats, fs1)
    IN /\ drag_fid # NoFid
       /\ dragging
       /\ fields' = fs1
       /\ feats' = DragEnd(fm1, drag_fid, MapToLayer(pt), drag_start_layer_pt)
       /\ ClearDrag
       /\ last' = Event("drag")
       /\ ThrottleExpires
       /\ UNCHANGED <<nextFid, viewVars, ioVars, dlgVars, plugVars, sesVars, selVars, modeVars>>

\* EditPointTool.canvasReleaseEvent, a button that is neither left nor right,
\* a feature grabbed and no drag: no branch is taken
EditReleaseOtherButton ==
    /\ drag_fid # NoFid
    /\ ~dragging
    /\ last' = Event("other")
    /\ UNCHANGED <<layerVars, dragVars, preview_recent, viewVars, ioVars, dlgVars, plugVars, sesVars, selVars, modeVars>>

Replies == {"yes", "no"}
EditPrompts == { <<>>, << ("category" :> "pole") @@ ("subcat" :> "own") >> }

EditPressEvent == \E b \in Buttons, pt \in EventPts : EditPress(b, pt)
EditMoveEvent == \E pt \in EventPts : EditMove(pt)
EditReleaseEvent ==
    \/ \E pt \in EventPts, reply \in Replies : EditReleaseDelete(pt, reply)
    \/ \E b \in Buttons : EditReleaseNothing(b)
    \/ \E prompt \in EditPrompts : EditReleaseClick(prompt)
    \/ \E pt \in EventPts : EditReleaseDrag(pt)
    \/ EditReleaseOtherButton

\* a click of the right button at map point pt: canvasPressEvent (lines 368-374)
\* drops the grab and ends a drag in progress, then canvasReleaseEvent finds no
\* drag and takes its delete branch (396-410).  last.n is 0 when no confirmation
\* opens, 1 when it opens and is refused, 2 when the feature is deleted
EditRightClick(pt, reply) ==
    LET fid == NearestFid(feats, pt)
    IN /\ feats' = IF fid # NoFid /\ reply = "yes" THEN DeleteFeature(feats, fid) ELSE feats
       /\ ClearDrag
       /\ last' = [ev |-> "right_click",
                   n |-> IF fid = NoFid THEN 0 ELSE IF reply = "yes" THEN 2 ELSE 1]
       /\ ThrottleExpires
       /\ UNCHANGED <<fields, nextFid, viewVars, ioVars, dlgVars, plugVars, sesVars, selVars, modeVars>>

\* prompts that return one attribute set naming a category and its sub-field
CategoryPrompts ==
    { << ("category" :> "pole") @@ ("pole" :> "Utility") >>,
      << ("category" :> "traffic sign") @@ ("traffic sign" :> "Stop") >> }

EditClickCategory == \E prompt \in CategoryPrompts : EditReleaseClick(prompt)

EditRightClickEvent == \E pt \in EventPts, reply \in Replies : EditRightClick(pt, reply)

(***************************************************************************)
(* The add mode and the delete mode (viewer.py, viewer_logic.py and        *)
(* maptools.toggle_tool_mode).  A map tool is named by its kind: NoTool is *)
(* canvas.mapTool() = None, ForeignTools are tools of QGIS itself, AddTool *)
(* and DelTool are the tools the plugin makes.  A button is [text, checked]*)
(* with text "on" for the ON label and "off" for the OFF label.            *)
(***************************************************************************)
NoTool == "none"
ForeignTools == {"pan", "identify"}
AddTool == "add"
DelTool == "del"

BtnOff == [text |-> "off", checked |-> FALSE]
BtnOn == [text |-> "on", checked |-> TRUE]

\* the owner's mode attributes, the canvas's tool and the two buttons
Modes ==
    [add_mode |-> add_mode, del_mode |-> del_mode,
     click_tool |-> click_tool, delete_tool |-> delete_tool,
     prev_map_tool |-> prev_map_tool, canvas_tool |-> canvas_tool,
     add_btn |-> add_btn, del_btn |-> del_btn]

\* "if getattr(self, '_prev_map_tool', None): canvas.setMapTool(self._prev_map_tool)"
RestorePrevTool(m) ==
    IF m.prev_map_tool # NoTool THEN [m EXCEPT !.canvas_tool = m.prev_map_tool] ELSE m

\* _disable_add_mode (viewer.py 883-888, viewer_logic.py 525-530)
disable_add_mode(m) ==
    [RestorePrevTool(m) EXCEPT !.click_tool = FALSE, !.prev_map_tool = NoTool,
                               !.add_mode = FALSE, !.add_btn = BtnOff]

\* _disable_del_mode (viewer.py 910-915, viewer_logic.py 551-556)
disable_del_mode(m) ==
    [RestorePrevTool(m) EXCEPT !.delete_tool = FALSE, !.prev_map_tool = NoTool,
                               !.del_mode = FALSE, !.del_btn = BtnOff]

\* PhotoViewerPlus._enable_add_mode; layer_ok: _ensure_click_layer returned a layer
viewer_enable_add_mode(m, layer_ok) ==
    LET m1 == IF m.del_mode THEN disable_del_mode(m) ELSE m
    IN IF ~layer_ok THEN [m1 EXCEPT !.add_btn.checked = FALSE]
       ELSE [m1 EXCEPT !.prev_map_tool = m1.canvas_tool, !.click_tool = TRUE,
                       !.canvas_tool = AddTool, !.add_mode = TRUE, !.add_btn.text = "on"]

\* an _enable_del_mode that leaves add mode as it is
viewer_enable_del_keeping_add(m, layer_ok) ==
    IF ~layer_ok THEN [m EXCEPT !.del_btn.checked = FALSE]
    ELSE [m EXCEPT !.prev_map_tool = m.canvas_tool, !.delete_tool = TRUE,
                   !.canvas_tool = DelTool, !.del_mode = TRUE, !.del_btn.text = "on"]

\* PhotoViewerPlus._enable_del_mode
viewer_enable_del_mode(m, layer_ok) ==
    LET m1 == IF m.add_mode THEN disable_add_mode(m) ELSE m
    IN IF ~layer_ok THEN [m1 EXCEPT !.del_btn.checked = FALSE]
       ELSE [m1 EXCEPT !.prev_map_tool = m1.canvas_tool, !.delete_tool = TRUE,
                       !.canvas_tool = DelTool, !.del_mode = TRUE, !.del_btn.text = "on"]

\* PhotoViewerPlus._toggle_add_mode, _toggle_del_mode
viewer_toggle_add_mode(m, layer_ok) ==
    IF m.add_mode THEN disable_add_mode(m) ELSE viewer_enable_add_mode(m, layer_ok)
viewer_toggle_del_mode(m, layer_ok) ==
    IF m.del_mode THEN disable_del_mode(m) ELSE viewer_enable_del_mode(m, layer_ok)

\* PhotoViewerController._enable_add_mode; without a layer _ensure_click_layer and
\* the handler both call ui.set_add_mode_text(False)
controller_enable_add_mode(m, layer_ok) ==
    LET m1 == IF m.del_mode THEN disable_del_mode(m) ELSE m
    IN IF ~layer_ok THEN [m1 EXCEPT !.add_btn = BtnOff]
       ELSE [m1 EXCEPT !.prev_map_tool = m1.canvas_tool, !.click_tool = TRUE,
                       !.canvas_tool = AddTool, !.add_mode = TRUE, !.add_btn = BtnOn]

\* PhotoViewerController._enable_del_mode: maptools has no DeletePointTool, so
\* line 546 raises AttributeError once _prev_map_tool is assigned
controller_enable_del_mode(m, layer_ok) ==
    LET m1 == IF m.add_mode THEN disable_add_mode(m) ELSE m
    IN IF ~layer_ok THEN [m1 EXCEPT !.add_btn = BtnOff, !.del_btn = BtnOff]
       ELSE [m1 EXCEPT !.prev_map_tool = m1.canvas_tool]

\* PhotoViewerController._toggle_add_mode, _toggle_del_mode
controller_toggle_add_mode(m, layer_ok) ==
    IF m.add_mode THEN disable_add_mode(m) ELSE controller_enable_add_mode(m, layer_ok)
controller_toggle_del_mode(m, layer_ok) ==
    IF m.del_mode THEN disable_del_mode(m) ELSE controller_enable_del_mode(m, layer_ok)

\* maptools.disable_current_tool
disable_current_tool(m, prev_tool) ==
    IF prev_tool # NoTool THEN [m EXCEPT !.canvas_tool = prev_tool] ELSE m

\* maptools._set_btn
set_btn(m, btn, text, checked) == [m EXCEPT ![btn] = [text |-> text, checked |-> checked]]

\* the attributes toggle_tool_mode is called with for the add and the delete tool
ToolAttr(which) == IF which = AddTool THEN "click_tool" ELSE "delete_tool"
BtnAttr(which) == IF which = AddTool THEN "add_btn" ELSE "del_btn"
ConflictOf(which) == IF which = AddTool THEN DelTool ELSE AddTool

\* maptools.toggle_tool_mode for the tool `which`, with the other tool as conflict
toggle_tool_mode(m, which, layer_ok) ==
    IF m[ToolAttr(which)]
    THEN set_btn([disable_current_tool(m, m.prev_map_tool)
                     EXCEPT ![ToolAttr(which)] = FALSE, !.prev_map_tool = NoTool],
                 BtnAttr(which), "off", FALSE)
    ELSE LET other == ConflictOf(which)
             m1 == IF m[ToolAttr(other)]
                   THEN set_btn([disable_current_tool(m, m.prev_map_tool)
                                    EXCEPT ![ToolAttr(other)] = FALSE,
                                           !.prev_map_tool = NoTool],
                                BtnAttr(other), "off", FALSE)
                   ELSE m
         IN IF ~layer_ok THEN set_btn(m1, BtnAttr(which), "off", FALSE)
            ELSE set_btn([m1 EXCEPT !.canvas_tool = which, ![ToolAttr(which)] = TRUE,
                                    !.prev_map_tool = m1.canvas_tool],
                         BtnAttr(which), "on", TRUE)

\* the mode is ON: the flag of viewer.py / viewer_logic.py, the tool attribute
\* for toggle_tool_mode, which keeps no flag
AddOn(m) == IF impl = "helper" THEN m.click_tool ELSE m.add_mode
DelOn(m) == IF impl = "helper" THEN m.delete_tool ELSE m.del_mode
AddModeOn == AddOn(Modes)
DelModeOn == DelOn(Modes)

\* what a click on a mode button did: "mode_off" when its mode was ON, "mode_swap"
\* when the other mode was ON, "mode_on" when its mode went ON, else "mode_none"
ModeEvent(m, m2, which) ==
    LET this_on == IF which = AddTool THEN AddOn(m) ELSE DelOn(m)
        other_on == IF which = AddTool THEN DelOn(m) ELSE AddOn(m)
        now_on == IF which = AddTool THEN AddOn(m2) ELSE DelOn(m2)
    IN IF this_on THEN "mode_off"
       ELSE IF other_on THEN "mode_swap"
       ELSE IF now_on THEN "mode_on" ELSE "mode_none"

SetModes(m, m2, which) ==
    /\ add_mode' = m2.add_mode
    /\ del_mode' = m2.del_mode
    /\ click_tool' = m2.click_tool
    /\ delete_tool' = m2.delete_tool
    /\ prev_map_tool' = m2.prev_map_tool
    /\ canvas_tool' = m2.canvas_tool
    /\ add_btn' = m2.add_btn
    /\ del_btn' = m2.del_btn
    /\ tool_before_on' = IF ModeEvent(m, m2, which) = "mode_on"
                         THEN m.canvas_tool ELSE tool_before_on
    /\ last' = [ev |-> ModeEvent(m, m2, which), n |-> IF which = AddTool THEN 1 ELSE 2]
    /\ UNCHANGED <<impl, toolVars, viewVars, ioVars, dlgVars, plugVars, sesVars, selVars>>

\* a click on a checkable button flips its checked state, then emits clicked
ClickedAdd == [Modes EXCEPT !.add_btn.checked = ~add_btn.checked]
ClickedDel == [Modes EXCEPT !.del_btn.checked = ~del_btn.checked]

\* viewer.py: add_btn.clicked -> _toggle_add_mode, del_btn.clicked -> _toggle_del_mode
ViewerClickAdd ==
    /\ impl = "viewer"
    /\ \E layer_ok \in BOOLEAN :
          SetModes(Modes, viewer_toggle_add_mode(ClickedAdd, layer_ok), AddTool)
ViewerClickDel ==
    /\ impl = "viewer"
    /\ \E layer_ok \in BOOLEAN :
          SetModes(Modes, viewer_toggle_del_mode(ClickedDel, layer_ok), DelTool)

\* viewer_logic.py: sigToggleAdd -> _toggle_add_mode, sigToggleDel -> _toggle_del_mode
ControllerClickAdd ==
    /\ impl = "controller"
    /\ \E layer_ok \in BOOLEAN :
          SetModes(Modes, controller_toggle_add_mode(ClickedAdd, layer_ok), AddTool)
ControllerClickDel ==
    /\ impl = "controller"
    /\ \E layer_ok \in BOOLEAN :
          SetModes(Modes, controller_toggle_del_mode(ClickedDel, layer_ok), DelTool)

\* a button wired to toggle_tool_mode with the other tool as its conflict
HelperClickAdd ==
    /\ impl = "helper"
    /\ \E layer_ok \in BOOLEAN :
          SetModes(Modes, toggle_tool_mode(ClickedAdd, AddTool, layer_ok), AddTool)
HelperClickDel ==
    /\ impl = "helper"
    /\ \E layer_ok \in BOOLEAN :
          SetModes(Modes, toggle_tool_mode(ClickedDel, DelTool, layer_ok), DelTool)

\* _on_dock_destroyed (viewer.py 962-970, viewer_logic.py 653-661)
on_dock_destroyed(m) ==
    LET m1 == IF m.add_mode THEN disable_add_mode(m) ELSE m
    IN IF m1.del_mode THEN disable_del_mode(m1) ELSE m1

DockDestroyed ==
    /\ impl \in {"viewer", "controller"}
    /\ add_mode' = on_dock_destroyed(Modes).add_mode
    /\ del_mode' = on_dock_destroyed(Modes).del_mode
    /\ click_tool' = on_dock_destroyed(Modes).click_tool
    /\ delete_tool' = on_dock_destroyed(Modes).delete_tool
    /\ prev_map_tool' = on_dock_destroyed(Modes).prev_map_tool
    /\ canvas_tool' = on_dock_destroyed(Modes).canvas_tool
    /\ add_btn' = on_dock_destroyed(Modes).add_btn
    /\ del_btn' = on_dock_destroyed(Modes).del_btn
    /\ last' = [ev |-> IF add_mode \/ del_mode THEN "mode_off" ELSE "mode_none", n |-> 0]
    /\ UNCHANGED <<impl, tool_before_on, toolVars, viewVars, ioVars, dlgVars, plugVars, sesVars, selVars>>

\* the user picks a tool of QGIS: canvas.setMapTool(t)
UserSelectsTool ==
    /\ \E t \in ForeignTools : canvas_tool' = t
    /\ last' = [ev |-> "canvas", n |-> 0]
    /\ UNCHANGED <<impl, add_mode, del_mode, click_tool, delete_tool, prev_map_tool,
                   add_btn, del_btn, tool_before_on, toolVars, viewVars, ioVars, dlgVars, plugVars, sesVars, selVars>>

\* the active tool of QGIS or of another plugin is unset: canvas.unsetMapTool(t)
ForeignToolUnset ==
    /\ canvas_tool \in ForeignTools
    /\ canvas_tool' = NoTool
    /\ last' = [ev |-> "canvas", n |-> 0]
    /\ UNCHANGED <<impl, add_mode, del_mode, click_tool, delete_tool, prev_map_tool,
                   add_btn, del_btn, tool_before_on, toolVars, viewVars, ioVars, dlgVars, plugVars, sesVars, selVars>>

ModesIdle ==
    /\ add_mode = FALSE
    /\ del_mode = FALSE
    /\ click_tool = FALSE
    /\ delete_tool = FALSE
    /\ prev_map_tool = NoTool
    /\ canvas_tool = "pan"
    /\ add_btn = BtnOff
    /\ del_btn = BtnOff
    /\ tool_before_on = NoTool

NextModes ==
    \/ ViewerClickAdd
    \/ ViewerClickDel
    \/ ControllerClickAdd
    \/ ControllerClickDel
    \/ HelperClickAdd
    \/ HelperClickDel
    \/ DockDestroyed
    \/ UserSelectsTool
    \/ ForeignToolUnset

(***************************************************************************)
(* The photo viewer's rows (viewer_logic.py).  A row is                    *)
(* [kp, lat_kp, lon_kp, street, front, back]: texts as _load_csv leaves    *)
(* them (trimmed, "" when the cell is empty) and optional coordinates.     *)
(* Rows are counted from 0 as in the code; images[i + 1] is row i.         *)
(***************************************************************************)
MaxRows == 3      \* rows one CSV file has at most
MaxIdx == 4       \* |idx| of a direct show_image(idx) call is at most this

\* str.lower() over the texts of the model
Lower(s) ==
    CASE s = "K1" -> "k1"
      [] s = "P" -> "p"
      [] s = "A" -> "a"
      [] s = "B" -> "b"
      [] OTHER -> s

\* str.strip() over the texts of the model
Strip(s) ==
    CASE s = " K1 " -> "K1"
      [] s = " " -> ""
      [] OTHER -> s

\* the order of Python's str comparison over the lower-case texts of the model
StrRank(s) ==
    CASE s = "" -> 0
      [] s = "a" -> 1
      [] s = "b" -> 2
      [] s = "k1" -> 3
      [] s = "k2" -> 4
      [] s = "k3" -> 5
      [] s = "p" -> 6
      [] OTHER -> 7

\* the rows a CSV file of the model is made of
RowTemplates ==
    { [kp |-> "k1", lat_kp |-> Val(1), lon_kp |-> Val(1), street |-> "A",
       front |-> "p", back |-> "q"],
      [kp |-> "K1", lat_kp |-> Val(2), lon_kp |-> Val(2), street |-> "A",
       front |-> "", back |-> "r"],
      [kp |-> "k2", lat_kp |-> Val(3), lon_kp |-> Val(3), street |-> "B",
       front |-> "P", back |-> ""],
      [kp |-> "p", lat_kp |-> Val(5), lon_kp |-> NULL, street |-> "a",
       front |-> "q", back |-> "t"],
      [kp |-> "", lat_kp |-> Val(4), lon_kp |-> Val(4), street |-> "A",
       front |-> "", back |-> ""] }

CsvFiles == SeqsUpTo(RowTemplates, MaxRows)

\* the texts typed into the jump box
JumpKeys == {"", " ", " K1 ", "k1", "P", "q", "zz"}

EmptyDict == [k \in {} |-> 0]

\* _kp_numeric of _rebuild_index: <<0, value, "">> for a KP with a number in it,
\* <<1, 0, text>> otherwise
kp_numeric(kp_text) ==
    CASE kp_text \in {"k1", "K1"} -> <<0, 1, "">>
      [] kp_text = "k2" -> <<0, 2, "">>
      [] kp_text = "k3" -> <<0, 3, "">>
      [] OTHER -> <<1, 0, kp_text>>

\* the sort key (street_key, ord_key) of a row, as ranks
SortKey(r) ==
    LET ord_key == kp_numeric(r.kp)
    IN <<StrRank(Lower(Strip(r.street))), ord_key[1], ord_key[2], StrRank(ord_key[3])>>

\* tuple comparison: a < b
KeyLess(a, b) ==
    \E i \in 1..4 : a[i] < b[i] /\ \A j \in 1..(i - 1) : a[j] = b[j]

\* the place of row i in a list sorted so far: behind every row whose key is not
\* greater, so that rows with equal keys keep the load order
RECURSIVE InsertByKey(_, _, _)
InsertByKey(rows, sorted, i) ==
    IF sorted = <<>> THEN <<i>>
    ELSE IF KeyLess(SortKey(rows[i + 1]), SortKey(rows[Head(sorted) + 1]))
    THEN <<i>> \o sorted
    ELSE <<Head(sorted)>> \o InsertByKey(rows, Tail(sorted), i)

\* kp_order.sort(key=...) and the list of row numbers taken from it
RECURSIVE SortedOrder(_, _)
SortedOrder(rows, n) ==
    IF n = 0 THEN <<>> ELSE InsertByKey(rows, SortedOrder(rows, n - 1), n - 1)

RECURSIVE IndexByKpLast(_, _, _)
\* an _idx_by_kp loop in which a key keeps the last row that has it
IndexByKpLast(rows, i, d) ==
    IF i > Len(rows) THEN d
    ELSE LET key == Lower(Strip(rows[i].kp))
         IN IndexByKpLast(rows, i + 1,
                          IF rows[i].kp # "" THEN (key :> (i - 1)) @@ d ELSE d)

\* the _idx_by_kp loop of _rebuild_index: a key keeps the first row that has it
RECURSIVE IndexByKp(_, _, _)
IndexByKp(rows, i, d) ==
    IF i > Len(rows) THEN d
    ELSE LET key == Lower(Strip(rows[i].kp))
         IN IndexByKp(rows, i + 1,
                      IF rows[i].kp # "" /\ key \notin DOMAIN d
                      THEN d @@ (key :> (i - 1)) ELSE d)

\* self._idx_by_pic[k] = i for one picture name
PutPic(d, nm, i) ==
    LET k == Lower(Strip(nm))
    IN IF k # "" THEN (k :> i) @@ d ELSE d

\* the _idx_by_pic loop of _rebuild_index: a name keeps the last row that has it
RECURSIVE IndexByPic(_, _, _)
IndexByPic(rows, i, d) ==
    IF i > Len(rows) THEN d
    ELSE IndexByPic(rows, i + 1, PutPic(PutPic(d, rows[i].front, i - 1), rows[i].back, i - 1))

\* the viewer's attributes as one record
View ==
    [images |-> images, current_index |-> current_index, idx_by_kp |-> idx_by_kp,
     idx_by_pic |-> idx_by_pic, kp_order |-> kp_order,
     last_disp_front |-> last_disp_front, last_disp_back |-> last_disp_back,
     points |-> points]

\* the KP marker plot_all_points makes of a row (layers.py 105-121)
KpMarker(r) == [kp |-> r.kp, side |-> "kp", is_sel |-> 0]

\* a row gets a KP marker when it has both KP coordinates
HasKpCoords(r) == r.lat_kp # NULL /\ r.lon_kp # NULL

\* layers.plot_all_points: the features there were are deleted, the rows' KP
\* markers are added in the order of the rows
RECURSIVE plot_all_points(_, _)
plot_all_points(rows, i) ==
    IF i > Len(rows) THEN <<>>
    ELSE (IF HasKpCoords(rows[i]) THEN <<KpMarker(rows[i])>> ELSE <<>>)
         \o plot_all_points(rows, i + 1)

\* PhotoViewerController._plot_all_points: nothing is plotted without rows
controller_plot_all_points(v) ==
    IF v.images = <<>> THEN v ELSE [v EXCEPT !.points = plot_all_points(v.images, 1)]

\* PhotoViewerController._set_kp_selected on the layer's features
set_kp_selected(pts, kp_value) ==
    IF kp_value = "" THEN pts
    ELSE [i \in DOMAIN pts |->
            IF Lower(Strip(pts[i].side)) = "kp"
            THEN [pts[i] EXCEPT !.is_sel =
                     IF Lower(Strip(pts[i].kp)) = Lower(Strip(kp_value)) THEN 1 ELSE 0]
            ELSE pts[i]]

\* _rebuild_index
rebuild_index(v) ==
    [v EXCEPT !.idx_by_kp = IndexByKp(v.images, 1, EmptyDict),
              !.idx_by_pic = IndexByPic(v.images, 1, EmptyDict),
              !.kp_order = SortedOrder(v.images, Len(v.images))]

\* an index held within 0..n-1 by clamping instead of wrapping
ClampIndex(idx, n) == IF idx < 0 THEN 0 ELSE IF idx >= n THEN n - 1 ELSE idx

\* Python's idx % n for n > 0
PyMod(idx, n) == ((idx % n) + n) % n

\* self._kp_order.index(i), counted from 1; 0 when i is not in the list
PosInOrder(order, i) ==
    IF \E p \in 1..Len(order) : order[p] = i
    THEN CHOOSE p \in 1..Len(order) : order[p] = i /\ \A q \in 1..(p - 1) : order[q] # i
    ELSE 0

\* the first non-empty picture of the candidates, None when there is none
FirstPicture(cand) ==
    IF \E i \in 1..Len(cand) : cand[i] # ""
    THEN Val(cand[CHOOSE i \in 1..Len(cand) :
                     cand[i] # "" /\ \A j \in 1..(i - 1) : cand[j] = ""])
    ELSE NULL

\* _same_street
same_street(a, b) == a.street = b.street

\* candidates for the left pane that try the predecessor's back first
FrontCandidatesBackFirst(row, prev_row) ==
    IF row.lat_kp # NULL /\ row.lon_kp # NULL /\ prev_row # <<>>
       /\ same_street(prev_row[1], row)
    THEN <<prev_row[1].back, prev_row[1].front>>
    ELSE <<row.front>>

\* the candidates for the left pane (lines 328-331); prev_row is <<>> or <<row>>
FrontCandidates(row, prev_row) ==
    IF row.lat_kp # NULL /\ row.lon_kp # NULL /\ prev_row # <<>>
       /\ same_street(prev_row[1], row)
    THEN <<prev_row[1].front, prev_row[1].back>>
    ELSE <<row.front>>

\* the candidates for the right pane (lines 339-342)
BackCandidates(row, next_row) ==
    IF row.lat_kp # NULL /\ row.lon_kp # NULL /\ next_row # <<>>
       /\ same_street(next_row[1], row)
    THEN <<next_row[1].back, next_row[1].front>>
    ELSE <<row.back>>

\* PhotoViewerController.show_image
show_image(v, idx) ==
    IF v.images = <<>> THEN v
    ELSE LET ci == PyMod(idx, Len(v.images))
             row == v.images[ci + 1]
             pos == PosInOrder(v.kp_order, ci)
             prev_row == IF pos > 1 THEN <<v.images[v.kp_order[pos - 1] + 1]>> ELSE <<>>
             next_row == IF pos > 0 /\ pos < Len(v.kp_order)
                         THEN <<v.images[v.kp_order[pos + 1] + 1]>> ELSE <<>>
         IN [v EXCEPT !.current_index = ci,
                      !.last_disp_front = FirstPicture(FrontCandidates(row, prev_row)),
                      !.last_disp_back = FirstPicture(BackCandidates(row, next_row)),
                      !.points = set_kp_selected(v.points, row.kp)]

\* next_image, prev_image
next_image(v) == show_image(v, v.current_index + 1)
prev_image(v) == show_image(v, v.current_index - 1)

\* configure_and_load once _load_csv has returned rows
configure_and_load(v, rows) ==
    show_image(controller_plot_all_points(rebuild_index([v EXCEPT !.images = rows])), 0)

\* _jump: the row to show, <<>> when the key is empty or names nothing
JumpTarget(v, key_text) ==
    LET key == Lower(Strip(key_text))
    IN IF key = "" THEN <<>>
       ELSE IF key \in DOMAIN v.idx_by_kp THEN <<v.idx_by_kp[key]>>
       ELSE IF key \in DOMAIN v.idx_by_pic THEN <<v.idx_by_pic[key]>>
       ELSE <<>>

jump(v, key_text) ==
    IF JumpTarget(v, key_text) = <<>> THEN v ELSE show_image(v, JumpTarget(v, key_text)[1])

SetView(v) ==
    /\ images' = v.images
    /\ current_index' = v.current_index
    /\ idx_by_kp' = v.idx_by_kp
    /\ idx_by_pic' = v.idx_by_pic
    /\ kp_order' = v.kp_order
    /\ last_disp_front' = v.last_disp_front
    /\ last_disp_back' = v.last_disp_back
    /\ points' = v.points
    /\ UNCHANGED <<toolVars, modeVars, ioVars, dlgVars, plugVars, sesVars, selVars>>

\* the settings button: configure_and_load with a CSV file that loads
ConfigureAndLoad ==
    \E rows \in CsvFiles :
        \E indexed \in {rebuild_index([View EXCEPT !.images = rows])} :
            \E shown \in {show_image(controller_plot_all_points(indexed), 0)} :
                /\ SetView(shown)
                /\ last' = [ev |-> "load", n |-> 0]

\* configure_and_load when _pick_paths or _load_csv raises: an error box, no change
ConfigureFails ==
    /\ UNCHANGED <<viewVars, ioVars, dlgVars, plugVars, sesVars, selVars, toolVars, modeVars>>
    /\ last' = [ev |-> "load_failed", n |-> 0]

\* the next and the previous button; last.n is the row shown before
NextImage ==
    \E shown \in {next_image(View)} :
        /\ SetView(shown)
        /\ last' = [ev |-> "next", n |-> current_index]
PrevImage ==
    \E shown \in {prev_image(View)} :
        /\ SetView(shown)
        /\ last' = [ev |-> "prev", n |-> current_index]

\* any other call show_image(idx), e.g. from a selection on the map
ShowImageCall ==
    \E idx \in (-MaxIdx)..MaxIdx :
        \E shown \in {show_image(View, idx)} :
            /\ SetView(shown)
            /\ last' = [ev |-> "show", n |-> idx]

\* the jump box: _jump(key_text); an info box when the key names no row
Jump(key_text) ==
    \E shown \in {jump(View, key_text)} :
    /\ SetView(shown)
    /\ last' = [ev |-> IF Lower(Strip(key_text)) = "" THEN "jump_empty"
                       ELSE IF JumpTarget(View, key_text) = <<>> THEN "jump_info"
                       ELSE "jump",
                n |-> 0]

JumpEvent == \E key_text \in JumpKeys : Jump(key_text)

\* the viewer as constructed: no rows
ViewerEmpty ==
    [images |-> <<>>, current_index |-> 0, idx_by_kp |-> EmptyDict,
     idx_by_pic |-> EmptyDict, kp_order |-> <<>>,
     last_disp_front |-> NULL, last_disp_back |-> NULL, points |-> <<>>]

ViewIs(v) ==
    /\ images = v.images
    /\ current_index = v.current_index
    /\ idx_by_kp = v.idx_by_kp
    /\ idx_by_pic = v.idx_by_pic
    /\ kp_order = v.kp_order
    /\ last_disp_front = v.last_disp_front
    /\ last_disp_back = v.last_disp_back
    /\ points = v.points

NextViewer ==
    \/ ConfigureAndLoad
    \/ ConfigureFails
    \/ NextImage
    \/ PrevImage
    \/ ShowImageCall
    \/ JumpEvent

(***************************************************************************)
(* io.py: export_clicks_csv and import_clicks_csv.  A CSV file is          *)
(* [headers, rows]: the header names as they are written in the file and   *)
(* the data rows, a row giving the text of its lat and of its lon cell.    *)
(* A meta file is a JSON object: [kp], kp being <<>> when it has no "kp".  *)
(***************************************************************************)
MaxCsvRows == 2

\* the paths of the model; with_suffix(".csv") of a path that does not end in .csv
DiskPaths == {"a.csv", "a.txt"}
OutPaths == {"a.csv", "a.txt", "a"}
WithSuffixCsv(path) == IF path \in {"a.txt", "a"} THEN "a.csv" ELSE path
HasCsvSuffix(path) == path \in {"a.csv"}

NoFile == [csv |-> NULL, meta |-> NULL]

\* the text a number is written as, and float(text.strip()) of _pf: <<>> is None
NumText(v) ==
    IF v = NULL THEN ""
    ELSE CASE v[1] = 0 -> "0" [] v[1] = 1 -> "1" [] v[1] = 2 -> "2" [] OTHER -> "3"
ParseFloat(text) ==
    CASE text = "0" -> Val(0)
      [] text = "1" -> Val(1)
      [] text \in {"2", " 2 "} -> Val(2)
      [] text = "3" -> Val(3)
      [] OTHER -> NULL

\* utils.normalize_header over the header names of the model
normalize_header(h) ==
    CASE h = " LAT" -> "lat"
      [] h = "'Lon'" -> "lon"
      [] h = "X" -> "x"
      [] h = "Y" -> "y"
      [] OTHER -> h

\* the keys of utils.header_map(fieldnames)
header_map(fieldnames) == { normalize_header(h) : h \in fieldnames }

\* the CSV files a user can put on disk
CsvRowTemplates ==
    { [lat |-> " 2 ", lon |-> "1"], [lat |-> "x", lon |-> "1"], [lat |-> "1", lon |-> ""] }
UserCsvFiles ==
    { [headers |-> {" LAT", "'Lon'", "jpg"}, rows |-> r] :
          r \in SeqsUpTo(CsvRowTemplates, MaxCsvRows) }
    \cup { [headers |-> {"lat", "jpg"}, rows |-> << [lat |-> "1", lon |-> ""] >>],
           [headers |-> {"X", "Y"}, rows |-> << [lat |-> "", lon |-> ""] >>] }

\* the meta argument of export_clicks_csv: None or a dict
Metas == { NULL, Val([kp |-> Val(" K1 ")]), Val([kp |-> NULL]) }

\* what QgsVectorFileWriter writes for the layer: X, Y and the layer's fields, one
\* row for each feature in the order of the feature ids
RECURSIVE ExportRows(_, _)
ExportRows(fm, fid) ==
    IF fid > MaxFid THEN <<>>
    ELSE (IF fid \in DOMAIN fm
          THEN << [lat |-> NumText(Attr(fm[fid], "lat")),
                   lon |-> NumText(Attr(fm[fid], "lon"))] >>
          ELSE <<>>) \o ExportRows(fm, fid + 1)

export_layer_to_csv(fs, fm) == [headers |-> {"X", "Y"} \cup fs, rows |-> ExportRows(fm, 1)]

\* what a call of io.py returned: kind is "none" (no call yet), "export",
\* "import", or "raised"
NoRet ==
    [kind |-> "none", added |-> 0, skipped |-> 0, target_kp |-> NULL, missing |-> {},
     out_csv |-> "", meta_path |-> NULL]

\* export_clicks_csv(layer, out_csv, only_selected = False, meta); write_ok: the
\* file writer reports no error
export_clicks_csv(d, fs, fm, out_csv, meta, write_ok) ==
    LET out == IF ~HasCsvSuffix(out_csv) THEN WithSuffixCsv(out_csv) ELSE out_csv
    IN IF ~write_ok
       THEN [disk |-> d, ret |-> [NoRet EXCEPT !.kind = "raised"]]
       ELSE [disk |-> [d EXCEPT ![out] =
                          [csv |-> Val(export_layer_to_csv(fs, fm)),
                           meta |-> IF meta # NULL THEN meta ELSE @.meta]],
             ret |-> [NoRet EXCEPT !.kind = "export", !.out_csv = out,
                                   !.meta_path = IF meta # NULL
                                                 THEN Val(<<out, ".meta.json">>)
                                                 ELSE NULL]]

\* the feature lines 179-193 build for a row; the model's rows carry lat and lon only
ImportedFeature(fs, lat, lon) ==
    [geom |-> <<lon, lat>>,
     attrs |-> [k \in fs |->
                  IF k = "lat" THEN Val(lat)
                  ELSE IF k = "lon" THEN Val(lon)
                  ELSE IF k \in {"jpg", "category", "traffic sign", "pole", "fire hydrant",
                                 "subcat"} THEN Val("")
                  ELSE NULL]]

\* one pass of the loop of lines 154-200; acc is [fm, nf, added, skipped]
ImportRow(fs, acc, row, xform_ok) ==
    LET lat == ParseFloat(row.lat)
        lon == ParseFloat(row.lon)
    IN IF lat = NULL \/ lon = NULL THEN [acc EXCEPT !.skipped = @ + 1]
       ELSE IF ~xform_ok THEN [acc EXCEPT !.skipped = @ + 1]
       ELSE IF ~FN_has_UNKNOWN THEN [acc EXCEPT !.skipped = @ + 1]
       ELSE [acc EXCEPT !.fm = acc.fm @@ (acc.nf :> ImportedFeature(fs, lat[1], lon[1])),
                        !.nf = @ + 1, !.added = @ + 1]

RECURSIVE ImportRows(_, _, _, _, _)
ImportRows(fs, acc, rows, i, xform_ok) ==
    IF i > Len(rows) THEN acc
    ELSE ImportRows(fs, ImportRow(fs, acc, rows[i], xform_ok), rows, i + 1, xform_ok)

\* the target_kp of lines 98-107
MetaKp(file) ==
    IF file.meta = NULL THEN NULL
    ELSE Val(Strip(IF file.meta[1].kp # NULL THEN file.meta[1].kp[1] ELSE ""))

\* the headers of "Missing: ..." (lines 118-119)
MissingHeaders(csv) == {"lat", "lon"} \ header_map(csv.headers)

\* an import that clears the layer before it looks at the headers
import_clear_first(d, fs, fm, nf, csv_path, clear, xform_ok) ==
    IF d[csv_path].csv = NULL \/ MissingHeaders(d[csv_path].csv[1]) # {}
    THEN [fm |-> IF clear THEN << >> ELSE fm, nf |-> nf,
          ret |-> [NoRet EXCEPT !.kind = "raised",
                                !.missing = IF d[csv_path].csv = NULL THEN {}
                                            ELSE MissingHeaders(d[csv_path].csv[1])]]
    ELSE [fm |-> fm, nf |-> nf, ret |-> [NoRet EXCEPT !.kind = "import"]]

\* import_clicks_csv(layer, csv_path, dst_crs, clear); xform_ok: transform_point
\* raises for no row
import_clicks_csv(d, fs, fm, nf, csv_path, clear, xform_ok) ==
    IF d[csv_path].csv = NULL
    THEN [fm |-> fm, nf |-> nf, ret |-> [NoRet EXCEPT !.kind = "raised"]]
    ELSE LET csv == d[csv_path].csv[1]
             acc0 == [fm |-> IF clear THEN << >> ELSE fm, nf |-> nf,
                      added |-> 0, skipped |-> 0]
             acc == ImportRows(fs, acc0, csv.rows, 1, xform_ok)
         IN IF MissingHeaders(csv) # {}
            THEN [fm |-> fm, nf |-> nf,
                  ret |-> [NoRet EXCEPT !.kind = "raised", !.missing = MissingHeaders(csv)]]
            ELSE [fm |-> acc.fm, nf |-> acc.nf,
                  ret |-> [NoRet EXCEPT !.kind = "import", !.added = acc.added,
                                        !.skipped = acc.skipped,
                                        !.target_kp = MetaKp(d[csv_path])]]

\* a user puts a CSV file at a.csv
UserWritesCsv ==
    \E csv \in UserCsvFiles :
        /\ disk' = [disk EXCEPT !["a.csv"].csv = Val(csv)]
        /\ last' = Event("csv_written")
        /\ UNCHANGED <<exported, io_ret, toolVars, modeVars, viewVars, dlgVars, plugVars, sesVars, selVars>>

ExportClicks(out_csv, meta, write_ok) ==
    \E res \in {export_clicks_csv(disk, fields, feats, out_csv, meta, write_ok)} :
        /\ disk' = res.disk
        /\ io_ret' = res.ret
        /\ exported' = IF res.ret.kind = "export"
                       THEN [exported EXCEPT ![res.ret.out_csv] = Val(meta)]
                       ELSE exported
        /\ last' = Event(IF res.ret.kind = "export" THEN "export" ELSE "export_raised")
        /\ UNCHANGED <<toolVars, modeVars, viewVars, dlgVars, plugVars, sesVars, selVars>>

ExportEvent == \E out_csv \in OutPaths, meta \in Metas, write_ok \in BOOLEAN :
                   ExportClicks(out_csv, meta, write_ok)

ImportClicks(csv_path, clear, xform_ok) ==
    \E res \in {import_clicks_csv(disk, fields, feats, nextFid, csv_path, clear, xform_ok)} :
        /\ feats' = res.fm
        /\ nextFid' = res.nf
        /\ io_ret' = res.ret
        /\ last' = Event(IF res.ret.kind = "import" THEN "import" ELSE "import_raised")
        /\ UNCHANGED <<fields, dragVars, preview_recent, disk, exported, modeVars, viewVars, dlgVars, plugVars, sesVars, selVars>>

ImportEvent == \E csv_path \in DiskPaths, clear \in BOOLEAN, xform_ok \in BOOLEAN :
                   ImportClicks(csv_path, clear, xform_ok)

\* no file on disk, no call of io.py yet
IoIdle ==
    /\ disk = [p \in DiskPaths |-> NoFile]
    /\ exported = [p \in DiskPaths |-> <<>>]
    /\ io_ret = NoRet

NextIo ==
    \/ UserWritesCsv
    \/ ExportEvent
    \/ ImportEvent

(***************************************************************************)
(* dialogs.py: AttrDialog.  A text is the sequence of its characters.      *)
(***************************************************************************)
SpinMin == 1      \* QSpinBox.setRange(1, 999)
SpinMax == 999

Digits == <<"0", "1", "2", "3", "4", "5", "6", "7", "8", "9">>

IsDigit(c) == \E d \in DOMAIN Digits : Digits[d] = c

DigitVal(c) == (CHOOSE d \in DOMAIN Digits : Digits[d] = c) - 1

IsSpace(c) == c = " "

\* str(n) of an integer n >= 0
RECURSIVE StrOfInt(_)
StrOfInt(n) ==
    IF n < 10 THEN << Digits[n + 1] >>
    ELSE StrOfInt(n \div 10) \o << Digits[(n % 10) + 1] >>

\* int(s) of a text of digits
RECURSIVE IntOfStr(_)
IntOfStr(s) ==
    IF s = <<>> THEN 0
    ELSE 10 * IntOfStr(SubSeq(s, 1, Len(s) - 1)) + DigitVal(s[Len(s)])

\* str.lstrip(), str.rstrip() and str.strip()
RECURSIVE str_lstrip(_)
str_lstrip(s) ==
    IF s # <<>> /\ IsSpace(s[1]) THEN str_lstrip(Tail(s)) ELSE s

RECURSIVE str_rstrip(_)
str_rstrip(s) ==
    IF s # <<>> /\ IsSpace(s[Len(s)]) THEN str_rstrip(SubSeq(s, 1, Len(s) - 1)) ELSE s

str_strip(s) == str_rstrip(str_lstrip(s))

\* s.split(sep) for a separator of one character
RECURSIVE str_split(_, _)
str_split(s, sep) ==
    IF \A i \in DOMAIN s : s[i] # sep THEN << s >>
    ELSE LET k == CHOOSE i \in DOMAIN s : s[i] = sep /\ \A j \in 1..(i - 1) : s[j] # sep
         IN << SubSeq(s, 1, k - 1) >> \o str_split(SubSeq(s, k + 1, Len(s)), sep)

\* sep.join(parts)
RECURSIVE str_join(_, _)
str_join(sep, parts) ==
    IF parts = <<>> THEN <<>>
    ELSE IF Len(parts) = 1 THEN parts[1]
    ELSE parts[1] \o sep \o str_join(sep, Tail(parts))

\* the digits of s when s matches \s*=\s*(\d+) as a whole, <<>> when it does not
CountSuffix(s) ==
    LET a == str_lstrip(s)
        b == IF a # <<>> /\ a[1] = "=" THEN str_lstrip(Tail(a)) ELSE <<>>
    IN IF b # <<>> /\ \A i \in DOMAIN b : IsDigit(b[i]) THEN b ELSE <<>>

\* a pattern whose group 1 is greedy: it takes the whole token
MV_RE_Greedy(token) == [g1 |-> token, g2 |-> << >>]

\* _MV_RE.match(token): the lazy group 1 is the shortest prefix after which the
\* rest is empty or a count suffix; group 2 is the digits of that suffix
MV_RE(token) ==
    LET Ok(k) == k = Len(token) \/ CountSuffix(SubSeq(token, k + 1, Len(token))) # <<>>
        k == CHOOSE i \in 0..Len(token) : Ok(i) /\ \A j \in 0..(i - 1) : ~Ok(j)
    IN [g1 |-> SubSeq(token, 1, k),
        g2 |-> CountSuffix(SubSeq(token, k + 1, Len(token)))]

Max(a, b) == IF a >= b THEN a ELSE b

\* the loop of _parse_multivalue over the tokens, a later token of a label
\* replacing an earlier one
RECURSIVE ParseTokens(_, _)
ParseTokens(tokens, out) ==
    IF tokens = <<>> THEN out
    ELSE LET m == MV_RE(tokens[1])
             label == str_strip(m.g1)
             cnt == IF m.g2 # <<>> THEN IntOfStr(m.g2) ELSE 1
         IN IF label = <<>> THEN ParseTokens(Tail(tokens), out)
            ELSE ParseTokens(Tail(tokens),
                     [l \in DOMAIN out \cup {label} |->
                         IF l = label THEN Max(1, cnt) ELSE out[l]])

\* AttrDialog._parse_multivalue: "A=2, B, C=10" -> {A: 2, B: 1, C: 10}
parse_multivalue(text) ==
    LET parts == str_split(text, ",")
        tokens == SelectSeq([i \in DOMAIN parts |-> str_strip(parts[i])], LAMBDA t : t # <<>>)
    IN ParseTokens(tokens, << >>)

\* the attrs_spec the dialog is built for: one attribute with options (two of
\* USER_ATTRS' labels of "Traffic Sign") and one free-text attribute
Lbl_Stop == <<"S", "t", "o", "p">>
Lbl_DoNotEnter == <<"D", "o", " ", "n", "o", "t", " ", "E", "n", "t", "e", "r">>

DialogAttrs ==
    << [name |-> "Traffic Sign", options |-> << Lbl_Stop, Lbl_DoNotEnter >>],
       [name |-> "notes", options |-> << >>] >>

DialogRows == DOMAIN DialogAttrs

HasOptions(r) == DialogAttrs[r].options # << >>

\* the values the user turns a spin box to, and the texts typed into a line edit
SpinValues == {SpinMin, SpinMax}
LineTexts == { << >>, << " " >>, << "x" >> }

\* QSpinBox.setValue clamps to the range
SpinClamp(n) == IF n < SpinMin THEN SpinMin ELSE IF n > SpinMax THEN SpinMax ELSE n

\* texts of a value as last_values and the stored presets hold them
Txt_Stop2_Dne == Lbl_Stop \o <<"=", "2", ",", " ">> \o Lbl_DoNotEnter
Txt_Dne10 == Lbl_DoNotEnter \o <<" ", "=", " ", "1", "0">>
Txt_Stop0 == Lbl_Stop \o <<"=", "0">>
Txt_StopTwice == Lbl_Stop \o <<"=", "3", ",", ",", " ">> \o Lbl_Stop \o <<"=", "0", "0", "7">>

\* a dict name -> text, as a function on the names it has
NoValues == << >>

ValueInputs ==
    { NoValues,
      [n \in {"Traffic Sign"} |-> Txt_Stop2_Dne],
      [n \in {"Traffic Sign", "notes"} |-> IF n = "notes" THEN << "x" >> ELSE Txt_Dne10],
      [n \in {"Traffic Sign"} |-> Txt_Stop0],
      [n \in {"Traffic Sign", "notes"} |-> IF n = "notes" THEN << " " >> ELSE Txt_StopTwice] }

DictGet(d, k, default) == IF k \in DOMAIN d THEN d[k] ELSE default

\* the widgets of one option: the check box c and the spin box s
NewItem == [on |-> FALSE, enabled |-> FALSE, n |-> 1, sp_enabled |-> FALSE]

\* c.setChecked(on): toggled is emitted when the state changes, and is connected
\* to s.setEnabled
item_setChecked(it, on) ==
    IF it.on = on THEN it ELSE [it EXCEPT !.on = on, !.sp_enabled = on]

\* toggle_children(on), the slot of the parent check box's toggled signal
toggle_children(items, on) ==
    [i \in DOMAIN items |-> [items[i] EXCEPT !.enabled = on, !.sp_enabled = on /\ items[i].on]]

\* parent_chk.setChecked(on) of a row once its slots are connected
row_setChecked(r, row, on) ==
    IF row.checked = on THEN row
    ELSE IF HasOptions(r)
         THEN [row EXCEPT !.checked = on, !.items = toggle_children(row.items, on)]
         ELSE [row EXCEPT !.checked = on, !.ed_enabled = on]

\* the options of row r that the text v names get checked, their spin box set
check_wanted(r, items, v) ==
    LET wants == parse_multivalue(v)
    IN [i \in DOMAIN items |->
           IF DialogAttrs[r].options[i] \in DOMAIN wants
           THEN [item_setChecked(items[i], TRUE) EXCEPT
                    !.n = SpinClamp(wants[DialogAttrs[r].options[i]])]
           ELSE items[i]]

\* AttrDialog.__init__: one row per attribute.  The parent check box of a row
\* with options is checked from last_values before toggle_children is connected,
\* so the options stay disabled
NewRow(r, last_values) ==
    IF HasOptions(r)
    THEN LET items0 == [i \in DOMAIN DialogAttrs[r].options |-> NewItem]
             last_val == str_strip(DictGet(last_values, DialogAttrs[r].name, << >>))
             items == IF last_val # << >> THEN check_wanted(r, items0, last_val) ELSE items0
         IN [checked |-> \E i \in DOMAIN items : items[i].on,
             items |-> items, text |-> << >>, ed_enabled |-> FALSE]
    ELSE [checked |-> FALSE, items |-> << >>,
          text |-> DictGet(last_values, DialogAttrs[r].name, << >>), ed_enabled |-> FALSE]

AttrDialog_init(last_values, stored) ==
    [rows |-> [r \in DialogRows |-> NewRow(r, last_values)],
     presets |-> stored,
     result |-> "open",
     warned |-> NULL]

\* the 'label=n' texts of the enabled and checked options of a row
Chosen(r, row) ==
    LET idx == SelectSeq([i \in DOMAIN row.items |-> i],
                         LAMBDA i : row.items[i].enabled /\ row.items[i].on)
    IN [k \in DOMAIN idx |->
           str_strip(DialogAttrs[r].options[idx[k]]) \o << "=" >>
               \o StrOfInt(Max(1, row.items[idx[k]].n))]

\* the value _collect_values takes from a row, << >> when it has none
RowValue(r, row) ==
    IF HasOptions(r) THEN str_join(<< ",", " " >>, Chosen(r, row)) ELSE str_strip(row.text)

\* AttrDialog._collect_values: the dict of the checked rows' values; with
\* validate, the first checked row without value is warned about and raises
collect_values(d, validate) ==
    LET bad == { r \in DialogRows : d.rows[r].checked /\ RowValue(r, d.rows[r]) = << >> }
        good == { r \in DialogRows : d.rows[r].checked /\ RowValue(r, d.rows[r]) # << >> }
    IN IF validate /\ bad # {}
       THEN [kind |-> "raised",
             warned |-> Val(DialogAttrs[CHOOSE r \in bad : \A q \in bad : r <= q].name),
             out |-> NoValues]
       ELSE [kind |-> "ok", warned |-> NULL,
             out |-> [n \in { DialogAttrs[r].name : r \in good } |->
                         LET r == CHOOSE q \in good : DialogAttrs[q].name = n
                         IN RowValue(r, d.rows[r])]]

\* AttrDialog.values
values(d) == collect_values(d, TRUE)

\* AttrDialog._current_values_no_validate
current_values_no_validate(d) == collect_values(d, FALSE).out

\* an accept that does not ask values() first
accept_unchecked(d) == [d EXCEPT !.result = "accepted", !.warned = NULL]

\* AttrDialog.accept: the dialog closes as accepted unless values() raises
accept(d) ==
    LET v == values(d)
    IN IF v.kind = "raised" THEN [d EXCEPT !.warned = v.warned]
       ELSE [d EXCEPT !.result = "accepted", !.warned = NULL]

\* AttrDialog._apply_values_to_ui: everything off, then the rows of vals on
apply_values_to_ui(d, vals) ==
    LET off(r) == LET row == row_setChecked(r, d.rows[r], FALSE)
                  IN [row EXCEPT
                         !.items = [i \in DOMAIN row.items |->
                                       [item_setChecked(row.items[i], FALSE) EXCEPT !.n = 1]],
                         !.text = << >>]
        on(r) == LET v == str_strip(DictGet(vals, DialogAttrs[r].name, << >>))
                     row == row_setChecked(r, off(r), TRUE)
                 IN IF v = << >> THEN off(r)
                    ELSE IF HasOptions(r)
                         THEN [row EXCEPT !.items = check_wanted(r, row.items, v)]
                         ELSE [row EXCEPT !.text = v]
    IN [d EXCEPT !.rows = [r \in DialogRows |-> on(r)]]

\* no dialog has been constructed
NoDialog == [rows |-> << >>, presets |-> NULL, result |-> "none", warned |-> NULL]

DlgIdle == dlg = NoDialog

\* the presets QSettings holds when the dialog is constructed (_load_presets);
\* the model keeps one preset name
StoredPresets ==
    { NULL,
      Val([n \in {"Traffic Sign"} |-> Txt_Dne10]),
      Val([n \in {"Traffic Sign", "notes"} |-> IF n = "notes" THEN << " " >> ELSE Txt_StopTwice]) }

DlgStep(d, ev) ==
    /\ dlg' = d
    /\ last' = Event(ev)
    /\ UNCHANGED <<toolVars, modeVars, viewVars, ioVars, plugVars, sesVars, selVars>>

\* the user clicks the check box of an attribute
ToggleParent(r) ==
    /\ dlg.result = "open"
    /\ DlgStep([dlg EXCEPT !.rows[r] = row_setChecked(r, dlg.rows[r], ~dlg.rows[r].checked)],
               "dialog_input")

\* the user clicks the check box of an option, which takes clicks when enabled
ToggleOption(r, i) ==
    /\ dlg.result = "open"
    /\ i \in DOMAIN dlg.rows[r].items
    /\ dlg.rows[r].items[i].enabled
    /\ DlgStep([dlg EXCEPT !.rows[r].items[i] =
                   item_setChecked(dlg.rows[r].items[i], ~dlg.rows[r].items[i].on)],
               "dialog_input")

\* the user turns an enabled spin box
SetSpin(r, i, n) ==
    /\ dlg.result = "open"
    /\ i \in DOMAIN dlg.rows[r].items
    /\ dlg.rows[r].items[i].sp_enabled
    /\ dlg.rows[r].items[i].n # n
    /\ DlgStep([dlg EXCEPT !.rows[r].items[i].n = n], "dialog_input")

\* the user types into an enabled line edit
EditText(r, t) ==
    /\ dlg.result = "open"
    /\ ~HasOptions(r)
    /\ dlg.rows[r].ed_enabled
    /\ dlg.rows[r].text # t
    /\ DlgStep([dlg EXCEPT !.rows[r].text = t], "dialog_input")

\* AttrDialog._on_apply_preset
OnApplyPreset ==
    /\ dlg.result = "open"
    /\ dlg.presets # NULL
    /\ DlgStep(apply_values_to_ui(dlg, dlg.presets[1]), "dialog_preset")

\* AttrDialog._on_save_preset, the user giving the name of the one preset
OnSavePreset ==
    /\ dlg.result = "open"
    /\ current_values_no_validate(dlg) # NoValues
    /\ DlgStep([dlg EXCEPT !.presets = Val(current_values_no_validate(dlg))], "dialog_preset")

\* AttrDialog._on_delete_preset, the user answering Yes
OnDeletePreset ==
    /\ dlg.result = "open"
    /\ dlg.presets # NULL
    /\ DlgStep([dlg EXCEPT !.presets = NULL], "dialog_preset")

\* the OK button: AttrDialog.accept
Accept ==
    /\ dlg.result = "open"
    /\ DlgStep(accept(dlg), "accept")

NextDialog ==
    \/ \E r \in DialogRows : ToggleParent(r)
    \/ \E r \in DialogRows, i \in 1..2 : ToggleOption(r, i)
    \/ \E r \in DialogRows, i \in 1..2, n \in SpinValues : SetSpin(r, i, n)
    \/ \E r \in DialogRows, t \in LineTexts : EditText(r, t)
    \/ OnApplyPreset
    \/ OnSavePreset
    \/ OnDeletePreset
    \/ Accept

(***************************************************************************)
(* plugin.py: QGISToolPlugin.  The viewer it creates is viewer.py's        *)
(* PhotoViewerPlus; the dock is "shown", "deleting" once deleteLater() has *)
(* been called on it, and "gone" once Qt has destroyed it.                 *)
(***************************************************************************)
\* after initGui, which ends with run(): the action and the viewer are there
PluginLoaded == [action |-> TRUE, viewer |-> TRUE, dock |-> "shown"]

PluginIdle == plugin = PluginLoaded

\* PhotoViewerPlus has no method force_disable_map_tools
viewer_has_force_disable == FALSE

\* QGISToolPlugin.unload: the action is removed, the dock is taken out of the
\* main window and handed to deleteLater(); the modes are left to the dock's
\* destroyed signal as the viewer has no force_disable_map_tools
unload(p) ==
    [action |-> FALSE, viewer |-> FALSE,
     dock |-> IF p.viewer /\ p.dock = "shown" THEN "deleting" ELSE p.dock]

Unload ==
    /\ plugin.viewer
    /\ viewer_has_force_disable = FALSE
    /\ plugin' = unload(plugin)
    /\ last' = Event("unload")
    /\ UNCHANGED <<toolVars, modeVars, viewVars, ioVars, dlgVars, sesVars, selVars>>

\* Qt destroys the dock handed to deleteLater(): destroyed -> _on_dock_destroyed
UnloadedDockDestroyed ==
    /\ plugin.dock = "deleting"
    /\ \E m \in {on_dock_destroyed(Modes)} :
          /\ add_mode' = m.add_mode
          /\ del_mode' = m.del_mode
          /\ click_tool' = m.click_tool
          /\ delete_tool' = m.delete_tool
          /\ prev_map_tool' = m.prev_map_tool
          /\ canvas_tool' = m.canvas_tool
          /\ add_btn' = m.add_btn
          /\ del_btn' = m.del_btn
    /\ plugin' = [plugin EXCEPT !.dock = "gone"]
    /\ last' = Event("unloaded")
    /\ UNCHANGED <<impl, tool_before_on, toolVars, viewVars, ioVars, dlgVars, sesVars, selVars>>

\* the mode buttons of the dock take clicks while the dock is shown
PluginClickAdd == plugin.dock = "shown" /\ ViewerClickAdd
PluginClickDel == plugin.dock = "shown" /\ ViewerClickDel

NextPlugin ==
    \/ PluginClickAdd
    \/ PluginClickDel
    \/ UserSelectsTool
    \/ ForeignToolUnset
    \/ Unload
    \/ UnloadedDockDestroyed

(***************************************************************************)
(* The edit session of the layer across "with" blocks (utils.py            *)
(* EditContext, fields.py edit).  editing.prov is the set of edits the     *)
(* provider holds, editing.buf the edits the layer shows (provider plus    *)
(* edit buffer), editing.open the "with" blocks entered and not yet left,  *)
(* innermost last, editing.exc an exception on its way out of them.  Each  *)
(* open block remembers whether its entry started the session; the code    *)
(* keeps no such record, it is here for the properties only.               *)
(***************************************************************************)
EditingIdle ==
    editing = [editable |-> FALSE, prov |-> {}, buf |-> {}, made |-> 0,
               open |-> <<>>, exc |-> FALSE]

WithKinds == {"EditContext", "edit"}

Top(open) == open[Len(open)]
Pop(open) == SubSeq(open, 1, Len(open) - 1)

\* layer.startEditing() outside a "with" block (maptools.py 95-96)
LayerStartEditing ==
    /\ ~editing.exc
    /\ ~editing.editable
    /\ editing' = startEditing(editing)
    /\ UNCHANGED <<layerVars, dragVars, preview_recent, toolVars, modeVars, viewVars,
                   ioVars, dlgVars, plugVars, selVars, impl, tool_before_on, last>>

\* an edit through the layer (addFeatures, changeGeometry, changeAttributeValue);
\* without an edit session the call returns False and changes nothing
LayerChange ==
    /\ ~editing.exc
    /\ editing.editable
    /\ editing.made < MaxEdits
    /\ editing' = [editing EXCEPT !.buf = @ \cup {editing.made + 1}, !.made = @ + 1]
    /\ UNCHANGED <<layerVars, dragVars, preview_recent, toolVars, modeVars, viewVars,
                   ioVars, dlgVars, plugVars, selVars, impl, tool_before_on, last>>

\* layer.commitChanges() outside a "with" block (maptools.py 142)
LayerCommit ==
    /\ ~editing.exc
    /\ editing.editable
    /\ editing' = commitChanges(editing)
    /\ UNCHANGED <<layerVars, dragVars, preview_recent, toolVars, modeVars, viewVars,
                   ioVars, dlgVars, plugVars, selVars, impl, tool_before_on, last>>

\* "with EditContext(layer):" or "with edit(layer):" is entered
WithEnter(kind) ==
    /\ ~editing.exc
    /\ Len(editing.open) < MaxDepth
    /\ \E st \in {IF kind = "EditContext" THEN EditContextEnter(editing) ELSE edit_enter(editing)} :
          editing' = [st EXCEPT !.open = Append(@, [kind |-> kind, started |-> ~editing.editable])]
    /\ UNCHANGED <<layerVars, dragVars, preview_recent, toolVars, modeVars, viewVars,
                   ioVars, dlgVars, plugVars, selVars, impl, tool_before_on, last>>

\* the body of the innermost block ends without an exception
WithExit ==
    /\ ~editing.exc
    /\ editing.open # <<>>
    /\ \E st \in {IF Top(editing.open).kind = "EditContext"
                   THEN EditContextExit(editing) ELSE edit_exit(editing)} :
          editing' = [st EXCEPT !.open = Pop(@)]
    /\ UNCHANGED <<layerVars, dragVars, preview_recent, toolVars, modeVars, viewVars,
                   ioVars, dlgVars, plugVars, selVars, impl, tool_before_on, last>>

\* the body of the innermost block raises, or an exception reaches it from a
\* block inside it: the block is left and the exception goes on
WithRaise ==
    /\ editing.open # <<>>
    /\ \E st \in {IF Top(editing.open).kind = "EditContext"
                   THEN EditContextExitExc(editing) ELSE edit_exit_exc(editing)} :
          editing' = [st EXCEPT !.open = Pop(@), !.exc = TRUE]
    /\ UNCHANGED <<layerVars, dragVars, preview_recent, toolVars, modeVars, viewVars,
                   ioVars, dlgVars, plugVars, selVars, impl, tool_before_on, last>>

\* the handler's "except Exception" takes the exception that left every block
\* and rolls the layer back (maptools.py 144-148)
ExceptionCaught ==
    /\ editing.exc
    /\ editing.open = <<>>
    /\ editing' = [rollBack(editing) EXCEPT !.exc = FALSE]
    /\ UNCHANGED <<layerVars, dragVars, preview_recent, toolVars, modeVars, viewVars,
                   ioVars, dlgVars, plugVars, selVars, impl, tool_before_on, last>>

NextEditing ==
    \/ LayerStartEditing
    \/ LayerChange
    \/ LayerCommit
    \/ \E kind \in WithKinds : WithEnter(kind)
    \/ WithExit
    \/ WithRaise
    \/ ExceptionCaught

(***************************************************************************)
(* The selection on the photo layer (viewer_logic.py and viewer.py, the    *)
(* same code in both).  selecting.selected is the layer's selection,       *)
(* selecting.calls the calls in progress, outermost first, each with the   *)
(* place it has reached; selectionChanged is delivered inside the call     *)
(* that changes the selection.  done and muted record, for the properties, *)
(* how the last _select_features ended and whether a signal found          *)
(* suspend_selection_signal set.                                           *)
(***************************************************************************)
SelectingStart(ready) ==
    [suspend_selection_signal |-> FALSE, ready |-> ready, selected |-> {},
     calls |-> <<>>, done |-> "none", muted |-> FALSE]

SelectingIdle == selecting = SelectingStart(FALSE)

PhotoFids == {1, 2}

Frame(fn, pc, ids) == [fn |-> fn, pc |-> pc, ids |-> ids]

\* a handler that does not look at suspend_selection_signal
on_selection_unsuspended(sel, found) ==
    IF ~sel.ready \/ sel.selected = {} \/ ~found \/ Len(sel.calls) >= MaxCalls THEN sel
    ELSE [sel EXCEPT !.calls = Append(@, Frame("show_image", "find", {}))]

\* _on_layer_selection_changed: returns at once while suspend_selection_signal is
\* set, without layer or images, and on an empty selection; else it looks the
\* first selected feature up by kp, picture name and coordinate, and calls
\* show_image when it finds a row (found)
on_layer_selection_changed(sel, found) ==
    IF sel.suspend_selection_signal THEN [sel EXCEPT !.muted = TRUE]
    ELSE IF ~sel.ready \/ sel.selected = {} \/ ~found \/ Len(sel.calls) >= MaxCalls THEN sel
    ELSE [sel EXCEPT !.calls = Append(@, Frame("show_image", "find", {}))]

SelStep(sel) ==
    /\ selecting' = sel
    /\ UNCHANGED <<layerVars, dragVars, preview_recent, toolVars, modeVars, viewVars,
                   ioVars, dlgVars, plugVars, sesVars, impl, tool_before_on, last>>

\* the user changes the selection on the map while no call is in progress
UserSelects(ids, found) ==
    /\ selecting.calls = <<>>
    /\ ids # selecting.selected
    /\ SelStep(on_layer_selection_changed([selecting EXCEPT !.selected = ids], found))

\* show_image is called from a button, a key or the timer
ShowImageCalled ==
    /\ selecting.calls = <<>>
    /\ selecting.ready
    /\ SelStep([selecting EXCEPT !.calls = <<Frame("show_image", "find", {})>>])

\* show_image has looked for the features of the pictures it shows: with none it
\* selects nothing; else _select_features starts and sets suspend_selection_signal
ShowImageFinds(ids) ==
    /\ selecting.calls # <<>>
    /\ Top(selecting.calls) = Frame("show_image", "find", {})
    /\ SelStep(IF ids = {}
               THEN [selecting EXCEPT !.calls[Len(selecting.calls)].pc = "rest"]
               ELSE [selecting EXCEPT !.calls[Len(selecting.calls)].pc = "rest",
                                      !.calls = Append(@, Frame("_select_features", "try", ids)),
                                      !.suspend_selection_signal = TRUE])

\* removeSelection() and selectByIds(ids): each change of the selection emits
\* selectionChanged; the call may raise (raises) once the selection is removed
SelectByIds(raises, found) ==
    /\ selecting.calls # <<>>
    /\ Top(selecting.calls).fn = "_select_features"
    /\ Top(selecting.calls).pc = "try"
    /\ \E ids \in {Top(selecting.calls).ids} :
       \E s1 \in {IF selecting.selected = {} THEN selecting
                   ELSE on_layer_selection_changed([selecting EXCEPT !.selected = {}], found)} :
       \E s2 \in {IF raises THEN s1
                   ELSE on_layer_selection_changed([s1 EXCEPT !.selected = ids], found)} :
          \* a show_image the handler has called runs above this call
          LET at == Len(selecting.calls)
          IN SelStep([s2 EXCEPT !.calls[at].pc = IF raises THEN "raised" ELSE "selected"])

\* the finally clause of _select_features; an exception goes on through show_image
SelectFinally ==
    /\ selecting.calls # <<>>
    /\ Top(selecting.calls).fn = "_select_features"
    /\ Top(selecting.calls).pc \in {"raised", "selected"}
    /\ SelStep([selecting EXCEPT
                   !.suspend_selection_signal = FALSE,
                   !.done = Top(selecting.calls).pc,
                   !.calls = IF Top(selecting.calls).pc = "raised"
                             THEN SubSeq(@, 1, Len(@) - 2) ELSE Pop(@)])

\* show_image runs to its end after the selection
ShowImageReturns ==
    /\ selecting.calls # <<>>
    /\ Top(selecting.calls) = Frame("show_image", "rest", {})
    /\ SelStep([selecting EXCEPT !.calls = Pop(@)])

NextSelecting ==
    \/ \E ids \in SUBSET PhotoFids, found \in BOOLEAN : UserSelects(ids, found)
    \/ ShowImageCalled
    \/ \E ids \in SUBSET PhotoFids : ShowImageFinds(ids)
    \/ \E raises \in BOOLEAN, found \in BOOLEAN : SelectByIds(raises, found)
    \/ SelectFinally
    \/ ShowImageReturns

(***************************************************************************)
(* The specifications: the map tools on one click layer, the mode toggles, *)
(* the viewer.  Each leaves the other parts of the plugin at rest.         *)
(***************************************************************************)
ToolsIdle ==
    /\ fields = PluginLayerFields
    /\ feats = << >>
    /\ nextFid = 1
    /\ press_pt_map = NoPt
    /\ drag_fid = NoFid
    /\ dragging = FALSE
    /\ drag_start_layer_pt = NoPt
    /\ drag_start_fid = NoFid
    /\ preview_recent = FALSE

\* the rows of the viewer while the map tools are exercised
ToolRows ==
    << [kp |-> "k1", lat_kp |-> Val(1), lon_kp |-> Val(1), street |-> "A",
        front |-> "dir/b.jpg", back |-> ""] >>

InitTools ==
    /\ fields \in {PluginLayerFields, ForeignLayerFields}
    /\ feats = << >>
    /\ nextFid = 1
    /\ press_pt_map = NoPt
    /\ drag_fid = NoFid
    /\ dragging = FALSE
    /\ drag_start_layer_pt = NoPt
    /\ drag_start_fid = NoFid
    /\ preview_recent = FALSE
    /\ impl = "controller"
    /\ ModesIdle
    /\ ViewIs(configure_and_load(ViewerEmpty, ToolRows))
    /\ IoIdle
    /\ DlgIdle
    /\ PluginIdle
    /\ EditingIdle
    /\ SelectingIdle
    /\ last = Event("other")

NextTools ==
    \/ AddClick
    \/ EditPressEvent
    \/ EditMoveEvent
    \/ PreviewAges
    \/ EditReleaseEvent

SpecTools == InitTools /\ [][NextTools]_vars

InitModes ==
    /\ ToolsIdle
    /\ impl \in {"viewer", "controller", "helper"}
    /\ ModesIdle
    /\ ViewIs(ViewerEmpty)
    /\ IoIdle
    /\ DlgIdle
    /\ PluginIdle
    /\ EditingIdle
    /\ SelectingIdle
    /\ last = Event("other")

SpecModes == InitModes /\ [][NextModes]_vars

InitViewer ==
    /\ ToolsIdle
    /\ impl = "controller"
    /\ ModesIdle
    /\ ViewIs(ViewerEmpty)
    /\ IoIdle
    /\ DlgIdle
    /\ PluginIdle
    /\ EditingIdle
    /\ SelectingIdle
    /\ last = Event("other")

SpecViewer == InitViewer /\ [][NextViewer]_vars

\* the click layer import_clicks_csv and export_clicks_csv are given: empty, or
\* with points AddPointTool has added
IoLayers ==
    { << >>,
      << NewFeature(PluginLayerFields, <<1, 2>>, ("category" :> "pole"), "") >>,
      << NewFeature(PluginLayerFields, <<1, 2>>, ("category" :> "pole"), ""),
         NewFeature(PluginLayerFields, <<3, 0>>, ("category" :> "pole"), "") >> }

InitIo ==
    /\ fields = PluginLayerFields
    /\ feats \in IoLayers
    /\ nextFid = Len(feats) + 1
    /\ press_pt_map = NoPt
    /\ drag_fid = NoFid
    /\ dragging = FALSE
    /\ drag_start_layer_pt = NoPt
    /\ drag_start_fid = NoFid
    /\ preview_recent = FALSE
    /\ impl = "controller"
    /\ ModesIdle
    /\ ViewIs(ViewerEmpty)
    /\ IoIdle
    /\ DlgIdle
    /\ PluginIdle
    /\ EditingIdle
    /\ SelectingIdle
    /\ last = Event("other")

SpecIo == InitIo /\ [][NextIo]_vars

InitDialog ==
    /\ ToolsIdle
    /\ impl = "controller"
    /\ ModesIdle
    /\ ViewIs(ViewerEmpty)
    /\ IoIdle
    /\ \E last_values \in ValueInputs, stored \in StoredPresets :
          dlg = AttrDialog_init(last_values, stored)
    /\ PluginIdle
    /\ EditingIdle
    /\ SelectingIdle
    /\ last = Event("other")

SpecDialog == InitDialog /\ [][NextDialog]_vars

\* the map tool AddPointTool while the viewer shows the rows of a CSV file of
\* one or two rows of street "A" with a kp, and the user steps through them
AddViewFiles ==
    { rows \in CsvFiles :
         /\ Len(rows) \in 1..2
         /\ \A i \in DOMAIN rows : rows[i].street = "A" /\ rows[i].kp # "" }

InitAddView ==
    /\ ToolsIdle
    /\ impl = "controller"
    /\ ModesIdle
    /\ \E rows \in AddViewFiles : ViewIs(configure_and_load(ViewerEmpty, rows))
    /\ IoIdle
    /\ DlgIdle
    /\ PluginIdle
    /\ EditingIdle
    /\ SelectingIdle
    /\ last = Event("load")

NextAddView ==
    \/ AddClick
    \/ NextImage
    \/ PrevImage

SpecAddView == InitAddView /\ [][NextAddView]_vars

InitPlugin ==
    /\ ToolsIdle
    /\ impl = "viewer"
    /\ ModesIdle
    /\ ViewIs(ViewerEmpty)
    /\ IoIdle
    /\ DlgIdle
    /\ PluginIdle
    /\ EditingIdle
    /\ SelectingIdle
    /\ last = Event("other")

SpecPlugin == InitPlugin /\ [][NextPlugin]_vars

\* EditPointTool on a layer that holds points AddPointTool has added, the right
\* button being clicked as a whole
InitDrag ==
    /\ fields = PluginLayerFields
    /\ feats \in IoLayers
    /\ nextFid = Len(feats) + 1
    /\ press_pt_map = NoPt
    /\ drag_fid = NoFid
    /\ dragging = FALSE
    /\ drag_start_layer_pt = NoPt
    /\ drag_start_fid = NoFid
    /\ preview_recent = FALSE
    /\ impl = "controller"
    /\ ModesIdle
    /\ ViewIs(ViewerEmpty)
    /\ IoIdle
    /\ DlgIdle
    /\ PluginIdle
    /\ EditingIdle
    /\ SelectingIdle
    /\ last = Event("other")

NextDrag ==
    \/ EditPressEvent
    \/ EditMoveEvent
    \/ PreviewAges
    \/ EditReleaseEvent
    \/ EditRightClickEvent

SpecDrag == InitDrag /\ [][NextDrag]_vars

\* EditPointTool on a layer that holds points AddPointTool has added with a
\* category and its sub-field
ClickLayers ==
    { << NewFeature(PluginLayerFields, <<1, 2>>,
                    ("category" :> "traffic sign") @@ ("traffic sign" :> "Stop"), "") >>,
      << NewFeature(PluginLayerFields, <<1, 2>>,
                    ("category" :> "traffic sign") @@ ("traffic sign" :> "Stop"), ""),
         NewFeature(PluginLayerFields, <<3, 0>>,
                    ("category" :> "pole") @@ ("pole" :> "Utility"), "") >> }

InitClick ==
    /\ fields = PluginLayerFields
    /\ feats \in ClickLayers
    /\ nextFid = Len(feats) + 1
    /\ press_pt_map = NoPt
    /\ drag_fid = NoFid
    /\ dragging = FALSE
    /\ drag_start_layer_pt = NoPt
    /\ drag_start_fid = NoFid
    /\ preview_recent = FALSE
    /\ impl = "controller"
    /\ ModesIdle
    /\ ViewIs(ViewerEmpty)
    /\ IoIdle
    /\ DlgIdle
    /\ PluginIdle
    /\ EditingIdle
    /\ SelectingIdle
    /\ last = Event("other")

NextClick ==
    \/ EditPressEvent
    \/ EditClickCategory
    \/ EditRightClickEvent

SpecClick == InitClick /\ [][NextClick]_vars

\* the viewer with a photo layer, with and without images loaded
InitSelecting ==
    /\ ToolsIdle
    /\ impl \in {"viewer", "controller"}
    /\ ModesIdle
    /\ ViewIs(ViewerEmpty)
    /\ IoIdle
    /\ DlgIdle
    /\ PluginIdle
    /\ EditingIdle
    /\ \E ready \in BOOLEAN : selecting = SelectingStart(ready)
    /\ last = Event("other")

SpecSelecting == InitSelecting /\ [][NextSelecting]_vars

InitEditing ==
    /\ ToolsIdle
    /\ impl = "controller"
    /\ ModesIdle
    /\ ViewIs(ViewerEmpty)
    /\ IoIdle
    /\ DlgIdle
    /\ PluginIdle
    /\ EditingIdle
    /\ SelectingIdle
    /\ last = Event("other")

SpecEditing == InitEditing /\ [][NextEditing]_vars

\* AddPointTool on the layer the plugin creates, the prompt returning KeyLists
InitAddKeys ==
    /\ ToolsIdle
    /\ impl = "controller"
    /\ ModesIdle
    /\ ViewIs(ViewerEmpty)
    /\ IoIdle
    /\ DlgIdle
    /\ PluginIdle
    /\ EditingIdle
    /\ SelectingIdle
    /\ last = Event("other")

NextAddKeys == AddClickKeys

SpecAddKeys == InitAddKeys /\ [][NextAddKeys]_vars

(***************************************************************************)
(* Properties of AddPointTool.canvasReleaseEvent                           *)
(***************************************************************************)
\* the features a step creates
Created == Fids(feats') \ Fids(feats)

\* every feature of before the step is still there with the same geometry and
\* the same value in every field it had
OldFeaturesKept ==
    \A fid \in Fids(feats) :
        /\ fid \in Fids(feats')
        /\ feats'[fid].geom = feats[fid].geom
        /\ \A k \in DOMAIN feats[fid].attrs : Attr(feats'[fid], k) = feats[fid].attrs[k]

\* C1: a prompt that returns n >= 1 attribute sets adds exactly n features, each
\* at the click point transformed to the layer CRS with lat = y and lon = x, and
\* a cancelled or empty prompt adds, changes and deletes no feature.
C1_AddsOnePerSet ==
    [][\A pt \in EventPts, list \in PromptResults :
          AddRelease(pt, list) =>
             /\ Cardinality(Created) = Len(list)
             /\ OldFeaturesKept
             /\ Fids(feats) \subseteq Fids(feats')
             /\ \A fid \in Created :
                   /\ feats'[fid].geom = MapToLayer(pt)
                   /\ Attr(feats'[fid], "lat") = Val(MapToLayer(pt)[2])
                   /\ Attr(feats'[fid], "lon") = Val(MapToLayer(pt)[1])]_vars

\* C2: a created feature gets subcat 'combined' when the prompt returned two or
\* more sets or a feature lay within COORD_TOL of the click in x and in y, unless
\* its set carries a non-empty subcat; a single set at an unoccupied coordinate
\* leaves subcat as the set gives it, NULL when the set has none.
C2_CombinedOnCreate ==
    [][\A pt \in EventPts, list \in PromptResults :
          Created # {} /\ AddRelease(pt, list) =>
             \A fid \in Created :
                LET ea == list[fid - nextFid + 1]
                    carries == "subcat" \in DOMAIN ea /\ ea["subcat"] # ""
                    occupied == \E o \in Fids(feats) :
                                    /\ Abs(feats[o].geom[1] - MapToLayer(pt)[1]) <= COORD_TOL
                                    /\ Abs(feats[o].geom[2] - MapToLayer(pt)[2]) <= COORD_TOL
                IN /\ (Len(list) >= 2 \/ occupied) /\ ~carries
                        => Attr(feats'[fid], "subcat") = Val("combined")
                   /\ carries => Attr(feats'[fid], "subcat") = Val(ea["subcat"])
                   /\ Len(list) = 1 /\ ~occupied /\ "subcat" \notin DOMAIN ea
                        => Attr(feats'[fid], "subcat") = NULL]_vars

\* one set added next to, not on, an older feature: the new feature is 'combined'
C2_Witness ==
    /\ last = [ev |-> "add", n |-> 1]
    /\ \E o \in Fids(feats) :
          /\ o < nextFid - 1
          /\ nextFid - 1 \in Fids(feats)
          /\ feats[o].geom # feats[nextFid - 1].geom
          /\ WithinTol(feats[o].geom, feats[nextFid - 1].geom)
          /\ Attr(feats[nextFid - 1], "subcat") = Val("combined")

(***************************************************************************)
(* Properties of EditPointTool.canvasReleaseEvent                          *)
(***************************************************************************)
\* the other features within COORD_TOL of a layer point
OthersAt(pt_layer) ==
    { o \in Fids(feats) \ {drag_fid} :
        /\ Abs(feats[o].geom[1] - pt_layer[1]) <= COORD_TOL
        /\ Abs(feats[o].geom[2] - pt_layer[2]) <= COORD_TOL }

\* C3: a drag released where other features lie within COORD_TOL of the drop
\* coordinate leaves the dragged feature and all of those with subcat 'combined';
\* released where none lies, it leaves the dragged feature's subcat NULL.  Stated
\* for layers that have the subcat field.
C3_DropMarksCombined ==
    [][\A pt \in EventPts :
          last'.ev = "drag" /\ "subcat" \in fields /\ EditReleaseDrag(pt) =>
             IF OthersAt(MapToLayer(pt)) # {}
             THEN \A fid \in OthersAt(MapToLayer(pt)) \cup {drag_fid} :
                     Attr(feats'[fid], "subcat") = Val("combined")
             ELSE Attr(feats'[drag_fid], "subcat") = NULL]_vars

\* C4 as written: at the end of a drag, exactly one other feature within COORD_TOL
\* of the pre-drag coordinate gets subcat NULL, and two or more keep their subcat.
C4_StartUnmarkAsWritten ==
    [][\A pt \in EventPts :
          last'.ev = "drag" /\ EditReleaseDrag(pt) =>
             LET remain == OthersAt(drag_start_layer_pt)
             IN /\ Cardinality(remain) = 1
                     => \A o \in remain : Attr(feats'[o], "subcat") = NULL
                /\ Cardinality(remain) >= 2
                     => \A o \in remain :
                           Attr(feats'[o], "subcat") = Attr(feats[o], "subcat")]_vars

\* C4: at the end of a drag, exactly one other feature within COORD_TOL of the
\* pre-drag coordinate gets subcat NULL; of two or more, each one that is not also
\* within COORD_TOL of the drop coordinate keeps its subcat.
C4_StartUnmark ==
    [][\A pt \in EventPts :
          last'.ev = "drag" /\ EditReleaseDrag(pt) =>
             LET remain == OthersAt(drag_start_layer_pt)
             IN /\ Cardinality(remain) = 1
                     => \A o \in remain : Attr(feats'[o], "subcat") = NULL
                /\ Cardinality(remain) >= 2
                     => \A o \in remain \ OthersAt(MapToLayer(pt)) :
                           Attr(feats'[o], "subcat") = Attr(feats[o], "subcat")]_vars

\* a drag has ended away from two features that stay, 'combined', where it began
C4_Witness ==
    /\ last.ev = "drag"
    /\ Cardinality(Fids(feats)) = 3
    /\ \E a, b, c \in Fids(feats) :
          /\ a # b
          /\ WithinTol(feats[a].geom, feats[b].geom)
          /\ ~WithinTol(feats[a].geom, feats[c].geom)
          /\ ~WithinTol(feats[b].geom, feats[c].geom)
          /\ Attr(feats[a], "subcat") = Val("combined")
          /\ Attr(feats[b], "subcat") = Val("combined")
          /\ Attr(feats[c], "subcat") = NULL

\* C5: a right-button release with no drag in progress deletes exactly one
\* feature, a nearest one to the release point, and only when that feature is
\* within TOL_PIXELS pixels and the user answers Yes; otherwise the features are
\* unchanged.
C5_RightClickDeletes ==
    [][\A pt \in EventPts, reply \in Replies :
          last'.ev = "delete" /\ EditReleaseDelete(pt, reply) =>
             LET nearest == { f \in Fids(feats) :
                                \A o \in Fids(feats) :
                                   SqDist(pt, LayerToMap(feats[f].geom))
                                      <= SqDist(pt, LayerToMap(feats[o].geom)) }
                 in_reach == { f \in nearest :
                                 SqDist(pt, LayerToMap(feats[f].geom)) * MppDen * MppDen
                                    <= TOL_PIXELS * TOL_PIXELS * MppNum * MppNum }
             IN IF reply = "yes" /\ in_reach # {}
                THEN \E f \in in_reach :
                        /\ Fids(feats') = Fids(feats) \ {f}
                        /\ \A o \in Fids(feats') : feats'[o] = feats[o]
                ELSE feats' = feats]_vars

\* a right click has deleted a feature and left a farther one
C5_Witness ==
    /\ last = [ev |-> "delete", n |-> 1]
    /\ Cardinality(Fids(feats)) = 1
    /\ nextFid = 3

(***************************************************************************)
(* Properties of the add and delete modes                                  *)
(***************************************************************************)
\* C6: at most one of add mode and delete mode is ON, and switching one ON while
\* the other is ON switches the other OFF: its tool reference is cleared and its
\* button shows the OFF label, unchecked.
C6_OneModeAtATime ==
    /\ ~(AddModeOn /\ DelModeOn)
    /\ last = [ev |-> "mode_swap", n |-> 1]
          => ~DelModeOn /\ ~delete_tool /\ del_btn = [text |-> "off", checked |-> FALSE]
    /\ last = [ev |-> "mode_swap", n |-> 2]
          => ~AddModeOn /\ ~click_tool /\ add_btn = [text |-> "off", checked |-> FALSE]

\* add mode has been switched ON while delete mode was ON
C6_Witness ==
    /\ last = [ev |-> "mode_swap", n |-> 1]
    /\ AddModeOn
    /\ canvas_tool = AddTool
    /\ add_btn = [text |-> "on", checked |-> TRUE]

\* C7: once a mode is switched OFF the canvas's active tool is the tool that was
\* active before the mode was switched ON, so that a tool of the plugin is the
\* canvas's active tool only while its mode is ON.
C7_PreviousToolRestored ==
    /\ last.ev = "mode_off" => canvas_tool = tool_before_on
    /\ canvas_tool = AddTool => AddModeOn
    /\ canvas_tool = DelTool => DelModeOn

(***************************************************************************)
(* Properties of the viewer's navigation                                   *)
(***************************************************************************)
\* C8: with n >= 1 rows, show_image(idx) makes idx mod n the current row; next
\* from the last row shows row 0, prev from row 0 shows the last row, and next
\* followed by prev shows the same row again.
C8_IndexWraps ==
    Len(images) >= 1 =>
        LET n == Len(images)
        IN /\ current_index \in 0..(n - 1)
           /\ last.ev = "show"
                 => \E q \in (-(MaxIdx + 1))..(MaxIdx + 1) : last.n = q * n + current_index
           /\ last.ev = "next" /\ last.n = n - 1 => current_index = 0
           /\ last.ev = "prev" /\ last.n = 0 => current_index = n - 1
           /\ prev_image(next_image(View)).current_index = current_index

\* prev from row 0 of three rows has shown the last row
C8_Witness ==
    /\ last = [ev |-> "prev", n |-> 0]
    /\ Len(images) = 3
    /\ current_index = 2

\* the picture of a row's own side, None when the row has none
OwnPicture(name) == IF name # "" THEN <<name>> ELSE <<>>

\* the picture borrowed from a neighbour: its first side, its second side when it
\* has no first, None when it has neither
BorrowedPicture(first, second) ==
    IF first # "" THEN <<first>> ELSE IF second # "" THEN <<second>> ELSE <<>>

\* C9: for the row shown, when it has KP coordinates and its predecessor in
\* _kp_order is on the same street, the left pane shows the predecessor's front,
\* or its back when it has no front; when its successor is on the same street,
\* the right pane shows the successor's back, or its front when it has no back;
\* otherwise a pane shows the row's own front or back.
C9_BorrowsFromNeighbours ==
    Len(images) >= 1 =>
        \E pos \in 1..Len(kp_order) :
            /\ kp_order[pos] = current_index
            /\ LET row == images[current_index + 1]
                   has_coords == row.lat_kp # <<>> /\ row.lon_kp # <<>>
                   has_pred == pos > 1
                   has_succ == pos < Len(kp_order)
                   pred == images[kp_order[IF has_pred THEN pos - 1 ELSE pos] + 1]
                   succ == images[kp_order[IF has_succ THEN pos + 1 ELSE pos] + 1]
               IN /\ last_disp_front =
                        IF has_coords /\ has_pred /\ pred.street = row.street
                        THEN BorrowedPicture(pred.front, pred.back)
                        ELSE OwnPicture(row.front)
                  /\ last_disp_back =
                        IF has_coords /\ has_succ /\ succ.street = row.street
                        THEN BorrowedPicture(succ.back, succ.front)
                        ELSE OwnPicture(row.back)

\* the left pane shows the back picture of a predecessor that has no front
C9_Witness ==
    /\ Len(images) = 2
    /\ current_index = 1
    /\ images[1].front = ""
    /\ images[1].back = "r"
    /\ images[2].front = "p"
    /\ last_disp_front = <<"r">>
    /\ last.ev = "next"

\* C10: _jump with a non-empty key shows the first loaded row whose KP equals the
\* key, trimmed and case-insensitive; only when no KP matches, the last loaded
\* row whose front or back name equals it; when neither exists it shows an info
\* message and leaves current_index and the displayed pictures unchanged.
C10_JumpFindsRow ==
    [][\A key_text \in JumpKeys :
          last'.ev \in {"jump", "jump_info"} /\ Jump(key_text) =>
             LET key == Lower(Strip(key_text))
                 rows == 0..(Len(images) - 1)
                 kp_rows == { i \in rows : Lower(Strip(images[i + 1].kp)) = key }
                 pic_rows == { i \in rows : \/ Lower(Strip(images[i + 1].front)) = key
                                            \/ Lower(Strip(images[i + 1].back)) = key }
             IN IF kp_rows # {}
                THEN /\ last'.ev = "jump"
                     /\ current_index' \in kp_rows
                     /\ \A i \in kp_rows : current_index' <= i
                ELSE IF pic_rows # {}
                THEN /\ last'.ev = "jump"
                     /\ current_index' \in pic_rows
                     /\ \A i \in pic_rows : current_index' >= i
                ELSE /\ last'.ev = "jump_info"
                     /\ current_index' = current_index
                     /\ last_disp_front' = last_disp_front
                     /\ last_disp_back' = last_disp_back]_vars

\* a jump has shown the first of two rows whose KP differ in case only
C10_Witness ==
    /\ last.ev = "jump"
    /\ Len(images) = 3
    /\ images[2].kp = "K1"
    /\ images[3].kp = "k1"
    /\ current_index = 1

(***************************************************************************)
(* Properties of the photo layer's KP markers                              *)
(***************************************************************************)
\* C11: after every show_image, a feature with side 'kp' has is_sel = 1 if and
\* only if its kp equals the shown row's kp, trimmed and case-insensitive.
C11_OnlyShownKpHighlighted ==
    images # <<>> /\ last.ev \in {"load", "next", "prev", "show", "jump"} =>
        \A i \in DOMAIN points :
            points[i].side = "kp" =>
                (points[i].is_sel = 1 <=>
                    Lower(Strip(points[i].kp)) = Lower(Strip(images[current_index + 1].kp)))

(***************************************************************************)
(* Properties of import_clicks_csv and export_clicks_csv                   *)
(***************************************************************************)
\* the rows of a CSV file whose lat and lon both read as numbers
NumericRows(rows) ==
    { i \in 1..Len(rows) : ParseFloat(rows[i].lat) # NULL /\ ParseFloat(rows[i].lon) # NULL }

\* C12: import_clicks_csv returns added + skipped = the number of data rows;
\* every row whose lat and lon are numbers (the transform succeeding) adds one
\* feature and counts as added, every other row counts as skipped, and with
\* clear = True the layer afterwards holds exactly the added features.
C12_ImportCounts ==
    [][\A csv_path \in DiskPaths, clear \in BOOLEAN, xform_ok \in BOOLEAN :
          last'.ev = "import" /\ ImportClicks(csv_path, clear, xform_ok) =>
             LET rows == disk[csv_path].csv[1].rows
                 good == IF xform_ok THEN Cardinality(NumericRows(rows)) ELSE 0
                 before == IF clear THEN 0 ELSE Cardinality(DOMAIN feats)
             IN /\ io_ret'.added + io_ret'.skipped = Len(rows)
                /\ io_ret'.added = good
                /\ io_ret'.skipped = Len(rows) - good
                /\ Cardinality(DOMAIN feats') = before + good]_vars

\* C13: when the CSV lacks a lat or a lon header after normalisation,
\* import_clicks_csv raises an error that names the missing headers and the
\* layer's features are unchanged, also with clear = True.
C13_MissingHeadersRaise ==
    [][\A csv_path \in DiskPaths, clear \in BOOLEAN, xform_ok \in BOOLEAN :
          /\ last'.ev = "import_raised"
          /\ disk[csv_path].csv # <<>>
          /\ ~({"lat", "lon"} \subseteq { normalize_header(h) : h \in disk[csv_path].csv[1].headers })
          /\ ImportClicks(csv_path, clear, xform_ok)
          => /\ io_ret'.kind = "raised"
             /\ io_ret'.missing =
                   {"lat", "lon"} \ { normalize_header(h) : h \in disk[csv_path].csv[1].headers }
             /\ feats' = feats
             /\ fields' = fields]_vars

\* an import of a file without lon header has raised on a layer with two features
C13_Witness ==
    /\ last.ev = "import_raised"
    /\ io_ret.missing = {"lon"}
    /\ disk["a.csv"].csv # <<>>
    /\ Len(feats) = 2

\* C14: the target_kp import_clicks_csv(path) returns is the trimmed kp of the meta
\* of the most recent export_clicks_csv to that path, and None when that export
\* was made without meta; export writes to a path ending in .csv and its meta to
\* that path + '.meta.json'.
C14_TargetKpOfLastExport ==
    [][/\ \A csv_path \in DiskPaths, clear \in BOOLEAN, xform_ok \in BOOLEAN :
            /\ last'.ev = "import"
            /\ exported[csv_path] # <<>>
            /\ ImportClicks(csv_path, clear, xform_ok)
            => LET meta == exported[csv_path][1]
               IN /\ meta = <<>> => io_ret'.target_kp = <<>>
                  /\ meta # <<>> /\ meta[1].kp # <<>>
                        => io_ret'.target_kp = << Strip(meta[1].kp[1]) >>
       /\ \A out_csv \in OutPaths, meta \in Metas :
            last'.ev = "export" /\ ExportClicks(out_csv, meta, TRUE)
            => /\ io_ret'.out_csv \in {"a.csv"}
               /\ disk'[io_ret'.out_csv].csv # <<>>
               /\ meta # <<>> => /\ io_ret'.meta_path = << <<io_ret'.out_csv, ".meta.json">> >>
                                 /\ disk'[io_ret'.out_csv].meta = meta]_vars

(***************************************************************************)
(* Properties of AttrDialog                                                *)
(***************************************************************************)
\* the label -> count map of the enabled and checked options of a row
SelectedCounts(r, row) ==
    LET sel == { i \in DOMAIN row.items : row.items[i].enabled /\ row.items[i].on }
    IN [l \in { str_strip(DialogAttrs[r].options[i]) : i \in sel } |->
           row.items[CHOOSE i \in sel : str_strip(DialogAttrs[r].options[i]) = l].n]

Txt_Example == <<"A", "=", "2", ",", " ", "B", ",", " ", "C", "=", "1", "0">>

\* C15: the text the dialog produces for an attribute with options ('label=n'
\* joined by ', ') parses back with _parse_multivalue to the label -> count map
\* of the selection, for every selection and counts from 1 to 999; a bare label
\* parses as count 1, a count below 1 is raised to 1, and "A=2, B, C=10" parses
\* to {A: 2, B: 1, C: 10}.
C15_MultiValueRoundTrip ==
    /\ \A r \in DOMAIN dlg.rows :
          HasOptions(r) =>
             parse_multivalue(RowValue(r, dlg.rows[r])) = SelectedCounts(r, dlg.rows[r])
    /\ dlg.result # "none" =>
          /\ parse_multivalue(Txt_Example) =
                [l \in { <<"A">>, <<"B">>, <<"C">> } |->
                    IF l = <<"A">> THEN 2 ELSE IF l = <<"B">> THEN 1 ELSE 10]
          /\ parse_multivalue(Txt_Stop2_Dne) =
                [l \in { Lbl_Stop, Lbl_DoNotEnter } |-> IF l = Lbl_Stop THEN 2 ELSE 1]
          /\ parse_multivalue(Txt_Stop0) = [l \in { Lbl_Stop } |-> 1]

\* both options are selected, with the counts 999 and 10
C15_Witness ==
    /\ dlg.result = "open"
    /\ dlg.rows[1].checked
    /\ dlg.rows[1].items[1].enabled /\ dlg.rows[1].items[1].on /\ dlg.rows[1].items[1].n = SpinMax
    /\ dlg.rows[1].items[2].enabled /\ dlg.rows[1].items[2].on /\ dlg.rows[1].items[2].n = 10

\* a checked attribute has a value: an enabled and checked option, or text that
\* is not empty when trimmed
HasValue(r, row) ==
    IF HasOptions(r) THEN \E i \in DOMAIN row.items : row.items[i].enabled /\ row.items[i].on
    ELSE str_strip(row.text) # << >>

\* C16: accept() closes the dialog as accepted only when every checked attribute
\* has a value; otherwise it shows a warning and the dialog stays open; values()
\* of an accepted dialog holds exactly the checked attributes, none empty.
C16_AcceptNeedsValues ==
    [][last'.ev = "accept" /\ Accept =>
          LET ok == \A r \in DialogRows : dlg.rows[r].checked => HasValue(r, dlg.rows[r])
          IN /\ dlg'.result = "accepted" <=> ok
             /\ ~ok => dlg'.result = "open" /\ dlg'.warned # NULL /\ dlg'.rows = dlg.rows
             /\ ok => /\ values(dlg').kind = "ok"
                       /\ DOMAIN values(dlg').out =
                             { DialogAttrs[r].name : r \in { q \in DialogRows : dlg.rows[q].checked } }
                       /\ \A n \in DOMAIN values(dlg').out : values(dlg').out[n] # << >>]_vars

\* a dialog with both attributes checked has been accepted
C16_Witness ==
    /\ last.ev = "accept"
    /\ dlg.result = "accepted"
    /\ dlg.rows[1].checked /\ dlg.rows[2].checked

\* a dialog with a checked attribute without value has been refused
C16_WitnessRefused ==
    /\ last.ev = "accept"
    /\ dlg.result = "open"
    /\ dlg.warned = Val("Traffic Sign")
    /\ dlg.rows[1].items[1].on

(***************************************************************************)
(* Properties of _rebuild_index                                            *)
(***************************************************************************)
\* the row at place p of _kp_order
OrderedRow(p) == images[kp_order[p] + 1]

StreetKey(r) == Lower(Strip(r.street))

IsNumericKp(r) == kp_numeric(r.kp)[1] = 0

\* _kp_order holds every row number 0..n-1 once, streets ascending, and within a
\* street the numeric KPs ascending before the KPs without a number
KpOrderSorted ==
    /\ Len(kp_order) = Len(images)
    /\ { kp_order[p] : p \in DOMAIN kp_order } = 0..(Len(images) - 1)
    /\ \A p \in 1..(Len(kp_order) - 1) :
          /\ StrRank(StreetKey(OrderedRow(p))) <= StrRank(StreetKey(OrderedRow(p + 1)))
          /\ StreetKey(OrderedRow(p)) = StreetKey(OrderedRow(p + 1)) =>
                /\ IsNumericKp(OrderedRow(p + 1)) => IsNumericKp(OrderedRow(p))
                /\ IsNumericKp(OrderedRow(p + 1)) =>
                      kp_numeric(OrderedRow(p).kp)[2] <= kp_numeric(OrderedRow(p + 1).kp)[2]

\* C29: after _rebuild_index, _kp_order is a permutation of the row numbers
\* ordered by street (trimmed, lower case) and within a street by ascending
\* numeric KP, the rows without a numeric KP last; rows next to each other in one
\* street group are the rows show_image takes as neighbours on the same street.
C29_KpOrderGroupsStreets ==
    /\ KpOrderSorted
    /\ \A p \in 1..(Len(kp_order) - 1) :
          StreetKey(OrderedRow(p)) = StreetKey(OrderedRow(p + 1))
             <=> same_street(OrderedRow(p), OrderedRow(p + 1))

(***************************************************************************)
(* Properties of the selection the viewer makes                            *)
(***************************************************************************)
InSelectFeatures == \E i \in DOMAIN selecting.calls : selecting.calls[i].fn = "_select_features"

\* C28: the selection show_image makes never has _on_layer_selection_changed
\* call show_image again, and suspend_selection_signal is False whenever
\* _select_features is not executing, also after a selection call that raised.
C28_SelectionNotReentrant ==
    /\ \A i, j \in DOMAIN selecting.calls :
          i < j /\ selecting.calls[i].fn = "_select_features" =>
             selecting.calls[j].fn # "show_image"
    /\ Cardinality({ i \in DOMAIN selecting.calls : selecting.calls[i].fn = "show_image" }) <= 1
    /\ ~InSelectFeatures => ~selecting.suspend_selection_signal

\* a selection by show_image has raised after its signal found the flag set, and
\* no call is in progress
C28_Witness ==
    /\ selecting.calls = <<>>
    /\ selecting.done = "raised"
    /\ selecting.muted
    /\ ~selecting.suspend_selection_signal

(***************************************************************************)
(* Properties of AttrDialog opened with last values                        *)
(***************************************************************************)
\* the options of "Traffic Sign" that last_values names, with their counts
WantedOptions(last_values) ==
    LET wants == parse_multivalue(str_strip(DictGet(last_values, "Traffic Sign", << >>)))
        opts == { DialogAttrs[1].options[i] : i \in DOMAIN DialogAttrs[1].options }
    IN [l \in DOMAIN wants \cap opts |-> SpinClamp(wants[l])]

\* C27: AttrDialog opened with last_values that name valid options of an
\* attribute with options shows them, and OK pressed without any other input is
\* accepted, values() returning those options and counts for the attribute.
C27_LastValuesAccepted ==
    [][\A last_values \in ValueInputs, stored \in StoredPresets :
          (/\ last'.ev = "accept"
           /\ dlg = AttrDialog_init(last_values, stored)
           /\ DOMAIN WantedOptions(last_values) # {}
           /\ Accept) =>
             /\ \A i \in DOMAIN dlg.rows[1].items :
                   DialogAttrs[1].options[i] \in DOMAIN WantedOptions(last_values) =>
                      /\ dlg.rows[1].items[i].on
                      /\ dlg.rows[1].items[i].n = WantedOptions(last_values)[DialogAttrs[1].options[i]]
             /\ dlg'.result = "accepted"
             /\ parse_multivalue(values(dlg').out["Traffic Sign"]) = WantedOptions(last_values)]_vars

(***************************************************************************)
(* Properties of AddPointTool and the pictures the viewer shows            *)
(***************************************************************************)
\* the file name of the picture the viewer shows, the left (front) pane before
\* the right (back) pane, "" when neither pane shows a picture
DisplayedName ==
    IF last_disp_front # NULL THEN PathName(last_disp_front[1])
    ELSE IF last_disp_back # NULL THEN PathName(last_disp_back[1])
    ELSE ""

\* C17: the jpg attribute of a feature AddPointTool creates is the file name of
\* the picture the viewer shows at that moment, the front picture first, and is
\* empty only when no picture is shown.
C17_JpgIsDisplayedImage ==
    [][\A pt \in EventPts, list \in PromptResults :
          last'.ev = "add" /\ list # <<>> /\ AddRelease(pt, list) =>
             \A fid \in Created : Attr(feats'[fid], "jpg") = Val(DisplayedName)]_vars

(***************************************************************************)
(* Properties of QGISToolPlugin.unload                                     *)
(***************************************************************************)
\* C18: after unload() and the destruction of the dock that follows, whichever
\* mode was ON, add mode and delete mode are OFF, the canvas's active tool is
\* neither the plugin's add tool nor its delete tool, and the plugin's action
\* and viewer references are None.
C18_UnloadLeavesNoTool ==
    last.ev = "unloaded" =>
        /\ ~add_mode /\ ~del_mode
        /\ canvas_tool \notin {AddTool, DelTool}
        /\ ~plugin.action /\ ~plugin.viewer

(***************************************************************************)
(* Properties of the 'combined' mark over whole runs of the map tools      *)
(***************************************************************************)
\* another feature lies within COORD_TOL of feature fid
HasNeighbour(fm, fid) ==
    \E o \in Fids(fm) \ {fid} : WithinTol(fm[o].geom, fm[fid].geom)

\* C19: on a click layer that starts empty, after any sequence of AddPointTool
\* clicks and EditPointTool drags, attribute edits and deletions, a feature has
\* subcat = 'combined' exactly when another feature lies within COORD_TOL of it.
C19_CombinedIffNeighbour ==
    \A fid \in Fids(feats) :
        Attr(feats[fid], "subcat") = Val("combined") <=> HasNeighbour(feats, fid)

(***************************************************************************)
(* Properties of EditPointTool.canvasReleaseEvent                          *)
(***************************************************************************)
\* C20: after every canvasReleaseEvent of EditPointTool on a valid layer,
\* whatever the button and whether or not a drag was in progress, the tool holds
\* no grabbed feature: _drag_fid, _press_pt_map and _drag_start_layer_pt are
\* None and _dragging is False, so that a canvasMoveEvent changes no geometry
\* before the next press that grabs a feature.
C20_ReleaseDropsGrab ==
    [][EditReleaseEvent =>
          /\ drag_fid' = NoFid
          /\ press_pt_map' = NoPt
          /\ drag_start_layer_pt' = NoPt
          /\ dragging' = FALSE]_vars

(***************************************************************************)
(* Properties of a right click during a drag                               *)
(***************************************************************************)
\* C21: while a drag of EditPointTool is in progress, a click of the right
\* button (press and release) is ignored: no delete confirmation opens and no
\* feature is deleted.
C21_RightClickIgnoredInDrag ==
    [][\A pt \in EventPts, reply \in Replies :
          dragging /\ last'.ev = "right_click" /\ EditRightClick(pt, reply) =>
             /\ last'.n = 0
             /\ Fids(feats') = Fids(feats)]_vars

(***************************************************************************)
(* Properties of the drag branch of EditPointTool.canvasReleaseEvent       *)
(***************************************************************************)
\* C22: when a drag is released, the geometry of the dragged feature is already
\* at the release point, transformed to the layer CRS, through the previews, so
\* the coordinate of the 'combined' check at the drop point is the coordinate the
\* feature has.
C22_DroppedAtReleasePoint ==
    [][\A pt \in EventPts :
          last'.ev = "drag" /\ EditReleaseDrag(pt) =>
             /\ feats[drag_fid].geom = MapToLayer(pt)
             /\ feats'[drag_fid].geom = MapToLayer(pt)]_vars

(***************************************************************************)
(* Properties of the coordinates a feature carries                         *)
(***************************************************************************)
\* C23: every feature AddPointTool created, moved since by EditPointTool drags
\* only, has in every committed state lat equal to its geometry's y and lon
\* equal to its geometry's x.
C23_LatLonFollowGeometry ==
    \A fid \in Fids(feats) :
        /\ "lat" \in DOMAIN feats[fid].attrs => feats[fid].attrs["lat"] = Val(feats[fid].geom[2])
        /\ "lon" \in DOMAIN feats[fid].attrs => feats[fid].attrs["lon"] = Val(feats[fid].geom[1])

\* a feature in the middle of a drag, previewed away from where it was grabbed
C23_Witness ==
    /\ dragging
    /\ drag_fid \in Fids(feats)
    /\ drag_start_layer_pt # NoPt
    /\ feats[drag_fid].geom # drag_start_layer_pt
    /\ feats[drag_fid].attrs["lat"] = Val(feats[drag_fid].geom[2])
    /\ feats[drag_fid].attrs["lon"] = Val(feats[drag_fid].geom[1])

(***************************************************************************)
(* Properties of an EditPointTool click                                    *)
(***************************************************************************)
\* C26: after a left click without drag whose prompt returns one attribute set
\* with category C, the feature has the selected values and its sub-fields
\* among traffic sign, pole, fire hydrant that do not belong to C are NULL.
C26_ClickSetsCategory ==
    [][\A prompt \in CategoryPrompts :
          last'.ev = "click" /\ EditReleaseClick(prompt) =>
             LET f == feats'[drag_fid]
                 C == normalize_category(prompt[1]["category"])
             IN /\ \A k \in DOMAIN prompt[1] : f.attrs[k] = Val(prompt[1][k])
                /\ \A k \in OTHER_CANDIDATES \ GROUP_KEEP(C) : f.attrs[k] = NULL]_vars

(***************************************************************************)
(* Properties of EditContext                                               *)
(***************************************************************************)
\* C25: an EditContext entered on a layer already in an edit session starts no
\* session and, when it is left, leaves that session open with the edits made
\* before it neither committed nor discarded; an EditContext that started the
\* session commits it on a normal exit and rolls it back on an exception, which
\* propagates.
C25_NestedContextKeepsSession ==
    [][(/\ editing.open # <<>>
        /\ Top(editing.open).kind = "EditContext"
        /\ editing'.open = Pop(editing.open)) =>
          IF Top(editing.open).started
          THEN /\ ~editing'.editable
               /\ editing'.buf = editing'.prov
               /\ editing'.prov = IF editing'.exc THEN editing.prov ELSE editing.buf
          ELSE /\ editing'.editable = editing.editable
               /\ editing'.prov = editing.prov
               /\ editing'.buf = editing.buf]_vars

(***************************************************************************)
(* Properties of the edit session of one AddPointTool click                *)
(***************************************************************************)
\* C24: one click of AddPointTool is all-or-nothing: either a feature for every
\* returned attribute set is added and committed, or, a step having failed, the
\* layer is rolled back and holds none of the click's features.
C24_AddAllOrNothing ==
    [][\A pt \in EventPts, list \in PromptResults \cup KeyLists :
          last'.ev \in {"add", "add_failed"} /\ list # <<>> /\ AddRelease(pt, list) =>
             /\ Cardinality(Created) \in {0, Len(list)}
             /\ last'.ev = "add_failed" => Created = {}
             /\ last'.ev = "add" => Cardinality(Created) = Len(list)]_vars

====
